---- MODULE Spec2Model ----
(***************************************************************************)
(* A model of modyne, a typed single-table layer over DynamoDB.            *)
(*                                                                         *)
(* Strings whose characters matter (expression templates, placeholder      *)
(* keys, projected attribute names) are sequences of one-character         *)
(* strings, so that str::replace, trim_start_matches and format! are       *)
(* computed character by character.  Attribute names and values that the   *)
(* code only passes through are opaque TLA+ strings and integers.          *)
(* Option<T> is the empty sequence (None) or a one-element sequence        *)
(* (Some(x)); a HashMap is a function from its keys.                       *)
(***************************************************************************)
EXTENDS Integers, Sequences, FiniteSets, TLC

VARIABLES
    \* --- an operation being built and executed
    op,             \* the operation being built ("PutItem", "UpdateItem", "DeleteItem", "Query", "Scan")
                    \* or the bare builder being exercised ("Filter", "Update", "Condition")
    filter,         \* Option<expr::Filter>
    update,         \* Option<expr::Update>
    condition,      \* Option<expr::Condition>
    key_condition,  \* Option<expr::KeyCondition<K>> of a Query
    projection,     \* Option<expr::StaticProjection> of a Query / Scan
    raw,            \* history: what the caller wrote, per builder (template and keys as passed)
    span,           \* Option: the fields recorded on the tracing span by execute
    request,        \* Option: the request handed to the client by execute
    \* --- Aggregate::reduce over one page of items
    projections,    \* the aggregate's ProjectionSet: [kind, variants]
    page,           \* history: the items handed to reduce
    items,          \* the items the iterator of reduce has not yielded yet
    aggregate,      \* the aggregate: the entities merged so far, in order
    merged,         \* history: the items passed to merge so far
    result,         \* Option<Result<(), Error>>: what reduce returned
    \* --- projection expressions
    attr_input,     \* the attribute names a caller hands to Projection::new
    compiled,       \* Option<expr::Projection>: what Projection::new returned
    projection_set, \* the ProjectionSet in use: [kind, types]
    projection_once,\* Option: the set's cached projection_expression(), None until computed
    returned,       \* Option: what the last projection_expression() call returned
    query,          \* Option<Query>: the query QueryInputExt::query built
    \* --- serialization of keys and entities
    entity_in,      \* the entity at hand: [ENTITY_TYPE, full_key, data]
    serialized,     \* Option<Item>: what entity.full_key().into_key() returned
    wire_item,      \* Option<Item>: what entity.into_item() returned
    \* --- panics
    panicked,       \* Option: the panic a sort-key predicate ended in, [predicate, key_type, message]
    \* --- threads calling projection_expression() concurrently
    pc,             \* per thread: where it is inside projection_expression(), "idle" outside
    calling,        \* per thread: the ProjectionSet whose projection_expression() it is in
    boxed,          \* per thread: Option, the Box the closure of get_or_init returned to it
    rwlock,         \* the RwLock of ENTITY_PROJECTION_EXPRESSION: [writer, readers]
    ENTITY_PROJECTION_EXPRESSION, \* the BTreeMap behind the RwLock
    PROJECTION_ONCE,\* per projections! set: its OnceBox, None while it is null
    generated,      \* history: the set of every expression leaked so far; its index is the allocation
    observed,       \* history: [thread, set, value, missed] of every call that returned
    waited,         \* history: [waiter, holder, computing] of every wait for the RwLock
    lookups,        \* history: the number of calls made so far
    \* --- transactional items
    transact_item,  \* Option: what transact().build() returned for the builder at hand
    \* --- writes against the store
    table,          \* the store: the item each primary key holds
    prepared,       \* the put at hand, [via, entity, put], from entity.put() / create() / replace()
    operations,     \* TransactWrite::operations of the transaction being assembled
    attached,       \* history: the [via, entity, put] behind each of the operations
    outcome,        \* the last call to the store: [call, prepared, before, result]
    created,        \* history: the keys a successful create() stored an item under
    \* --- the page-size limit of a Query or Scan
    read_builder,   \* the Query or Scan being built, [operation, limit]
    limit_calls,    \* history, the limit() and set_limit() calls made on the builder, in order
    read_request,   \* Option, the limit of the request execute handed to the client
    \* --- operations addressed by primary key
    rows,           \* the table, the item each primary key holds
    rows_before,    \* history, the table before the last request was applied
    keyed,          \* the operation at hand, [via, input, op, update], from Entity::update() / delete() / condition_check()
    keyed_request,  \* Option, the request the operation at hand sent
    keyed_count,    \* history, the number of operations prepared so far
    \* --- the lazy scan stream of users
    scan_pages,     \* the pages the table answers a scan with, each [items, last_evaluated_key]
    stream_state,   \* the state unfold holds, Option of [last, items]
    stream_done,    \* whether the closure of unfold has returned None
    yielded,        \* history, what the stream has yielded so far, in order
    scans,          \* history, the scan requests issued so far, [exclusive_start_key, buffered, yielded_before, failed]
    \* --- paginated query loops and the tasks they spawn
    query_pages,    \* the pages the table answers the query with, each [items, last_evaluated_key]
    caller,         \* the function running, [fn, pc, next, order, last_result]
    page_requests,  \* history, the query requests issued so far, [exclusive_start_key, failed, last_evaluated_key]
    tasks,          \* the delete tasks spawned on the JoinSet, in spawn order, [session, status]
    completed,      \* the tasks that have finished and were not yet returned by join_next, in order of completion
    finished        \* Option, what the function returned, [result, unfinished]

exprVars == <<op, filter, update, condition, key_condition, projection, raw, span, request>>

reduceVars == <<projections, page, items, aggregate, merged, result>>

prjVars == <<attr_input, compiled, projection_set, projection_once, returned, query>>

keyVars == <<entity_in, serialized, wire_item>>

kcVars == <<panicked>>

cacheVars ==
    <<pc, calling, boxed, rwlock, ENTITY_PROJECTION_EXPRESSION, PROJECTION_ONCE,
      generated, observed, waited, lookups>>

txVars == <<transact_item>>

storeVars == <<table, prepared, operations, attached, outcome, created>>

limitVars == <<read_builder, limit_calls, read_request>>

keyedVars == <<rows, rows_before, keyed, keyed_request, keyed_count>>

streamVars == <<scan_pages, stream_state, stream_done, yielded, scans>>

loopVars == <<query_pages, caller, page_requests, tasks, completed, finished>>

vars ==
    <<exprVars, reduceVars, prjVars, keyVars, kcVars, cacheVars, txVars, storeVars, limitVars, keyedVars, streamVars, loopVars>>

\* what the steps on one part of the program leave alone
exprOthers == <<reduceVars, prjVars, keyVars, kcVars, cacheVars, txVars, storeVars, limitVars, keyedVars, streamVars, loopVars>>

reduceOthers == <<exprVars, prjVars, keyVars, kcVars, cacheVars, txVars, storeVars, limitVars, keyedVars, streamVars, loopVars>>

prjOthers == <<exprVars, reduceVars, keyVars, kcVars, cacheVars, txVars, storeVars, limitVars, keyedVars, streamVars, loopVars>>

keyOthers == <<exprVars, reduceVars, prjVars, kcVars, cacheVars, txVars, storeVars, limitVars, keyedVars, streamVars, loopVars>>

kcOthers == <<reduceVars, prjVars, keyVars, cacheVars, txVars, storeVars, limitVars, keyedVars, streamVars, loopVars>>

cacheOthers == <<exprVars, reduceVars, prjVars, keyVars, kcVars, txVars, storeVars, limitVars, keyedVars, streamVars, loopVars>>

txOthers == <<reduceVars, prjVars, keyVars, kcVars, cacheVars, storeVars, limitVars, keyedVars, streamVars, loopVars>>

storeOthers == <<exprVars, reduceVars, prjVars, keyVars, kcVars, cacheVars, txVars, limitVars, keyedVars, streamVars, loopVars>>

limitOthers == <<exprVars, reduceVars, prjVars, keyVars, kcVars, cacheVars, txVars, storeVars, keyedVars, streamVars, loopVars>>

keyedOthers == <<exprVars, reduceVars, prjVars, keyVars, kcVars, cacheVars, txVars, storeVars, limitVars, streamVars, loopVars>>

streamOthers == <<exprVars, reduceVars, prjVars, keyVars, kcVars, cacheVars, txVars, storeVars, limitVars, keyedVars, loopVars>>

loopOthers == <<exprVars, reduceVars, prjVars, keyVars, kcVars, cacheVars, txVars, storeVars, limitVars, keyedVars, streamVars>>

(***************************************************************************)
(* Option and HashMap                                                      *)
(***************************************************************************)
None == <<>>

Some(x) == <<x>>

IsSome(o) == o # <<>>

Unwrap(o) == o[1]

Range(s) == {s[i] : i \in DOMAIN s}

\* the keys of a list of (key, value) pairs
Keys(pairs) == {pairs[i][1] : i \in DOMAIN pairs}

\* the value of the last pair of the list that carries key k
LastValue(pairs, k) ==
    pairs[CHOOSE i \in DOMAIN pairs :
            /\ pairs[i][1] = k
            /\ \A j \in DOMAIN pairs : pairs[j][1] = k => j <= i][2]

EmptyMap == <<>>

\* HashMap::extend / Extend::extend: inserts the pairs in order, a later
\* insert of a key replaces the earlier value
Extend(map, pairs) ==
    [k \in (DOMAIN map) \cup Keys(pairs) |->
        IF k \in Keys(pairs) THEN LastValue(pairs, k) ELSE map[k]]

\* Iterator::collect::<HashMap<_, _>>()
Collect(pairs) == Extend(EmptyMap, pairs)

(***************************************************************************)
(* Strings as character sequences                                          *)
(***************************************************************************)
\* str::replace(c, with): every occurrence of the character c becomes `with`
RECURSIVE Replace(_, _, _)
Replace(s, c, with) ==
    IF s = <<>> THEN <<>>
    ELSE (IF Head(s) = c THEN with ELSE <<Head(s)>>) \o Replace(Tail(s), c, with)

\* str::trim_start_matches(c): drops every leading occurrence of c
RECURSIVE TrimStartMatches(_, _)
TrimStartMatches(s, c) ==
    IF s # <<>> /\ Head(s) = c THEN TrimStartMatches(Tail(s), c) ELSE s

(***************************************************************************)
(* expr::Filter, expr::Update, expr::Condition                             *)
(* A fragment is [expression, names, values, sensitive_values]; the three  *)
(* lists hold (placeholder, value) pairs in append order.                  *)
(***************************************************************************)
Filter_new(expression) ==
    [expression |-> Replace(Replace(expression, "#", <<"#", "f", "l", "t", "_">>),
                            ":", <<":", "f", "l", "t", "_">>),
     names |-> <<>>, values |-> <<>>, sensitive_values |-> <<>>]

Filter_name(self, name, value) ==
    [self EXCEPT !.names =
        Append(@, << <<"#", "f", "l", "t", "_">> \o TrimStartMatches(name, "#"), value >>)]

Filter_value(self, name, value) ==
    [self EXCEPT !.values =
        Append(@, << <<":", "f", "l", "t", "_">> \o TrimStartMatches(name, ":"), value >>)]

Filter_sensitive_value(self, name, value) ==
    [self EXCEPT !.sensitive_values =
        Append(@, << <<":", "f", "l", "t", "_">> \o TrimStartMatches(name, ":"), value >>)]

Update_new(expression) ==
    [expression |-> Replace(Replace(expression, "#", <<"#", "u", "p", "d", "_">>),
                            ":", <<":", "u", "p", "d", "_">>),
     names |-> <<>>, values |-> <<>>, sensitive_values |-> <<>>]

\* a slip a copied builder invites: the Update builder stamping the Condition prefix
Update_name_cnd_prefix(self, name, value) ==
    [self EXCEPT !.names =
        Append(@, << <<"#", "c", "n", "d", "_">> \o TrimStartMatches(name, "#"), value >>)]

Update_name(self, name, value) ==
    [self EXCEPT !.names =
        Append(@, << <<"#", "u", "p", "d", "_">> \o TrimStartMatches(name, "#"), value >>)]

Update_value(self, name, value) ==
    [self EXCEPT !.values =
        Append(@, << <<":", "u", "p", "d", "_">> \o TrimStartMatches(name, ":"), value >>)]

Update_sensitive_value(self, name, value) ==
    [self EXCEPT !.sensitive_values =
        Append(@, << <<":", "u", "p", "d", "_">> \o TrimStartMatches(name, ":"), value >>)]

Condition_new(expression) ==
    [expression |-> Replace(Replace(expression, "#", <<"#", "c", "n", "d", "_">>),
                            ":", <<":", "c", "n", "d", "_">>),
     names |-> <<>>, values |-> <<>>, sensitive_values |-> <<>>]

\* a slip: the key is prefixed without trimming the sigil the caller wrote
Condition_name_untrimmed(self, name, value) ==
    [self EXCEPT !.names =
        Append(@, << <<"#", "c", "n", "d", "_">> \o name, value >>)]

Condition_name(self, name, value) ==
    [self EXCEPT !.names =
        Append(@, << <<"#", "c", "n", "d", "_">> \o TrimStartMatches(name, "#"), value >>)]

Condition_value(self, name, value) ==
    [self EXCEPT !.values =
        Append(@, << <<":", "c", "n", "d", "_">> \o TrimStartMatches(name, ":"), value >>)]

Condition_sensitive_value(self, name, value) ==
    [self EXCEPT !.sensitive_values =
        Append(@, << <<":", "c", "n", "d", "_">> \o TrimStartMatches(name, ":"), value >>)]

\* the number of substitutions appended to an optional fragment so far
Appended(o) ==
    IF IsSome(o)
    THEN Len(Unwrap(o).names) + Len(Unwrap(o).values) + Len(Unwrap(o).sensitive_values)
    ELSE 0

(***************************************************************************)
(* keys: key definitions                                                   *)
(* A KeyDefinition is [index_name, hash_key, range_key]; index_name is     *)
(* None for the primary key, range_key is None for a hash-only key.        *)
(***************************************************************************)
\* keys::Primary
Primary_DEFINITION ==
    [index_name |-> None, hash_key |-> "PK", range_key |-> Some("SK")]

\* gsi_key!(Gsi1: "GSI1", "GSI1PK", "GSI1SK")
Gsi1_DEFINITION ==
    [index_name |-> Some("GSI1"), hash_key |-> "GSI1PK", range_key |-> Some("GSI1SK")]

\* lsi_key!(Lsi1: "LSI1", "LSI1SK")
Lsi1_DEFINITION ==
    [index_name |-> Some("LSI1"), hash_key |-> "PK", range_key |-> Some("LSI1SK")]

\* gsi_key!(Gsi5: "GSI5", "GSI5PK", "GSI5SK")
Gsi5_DEFINITION ==
    [index_name |-> Some("GSI5"), hash_key |-> "GSI5PK", range_key |-> Some("GSI5SK")]

\* lsi_key!(Lsi3: "LSI3", "LSI3SK")
Lsi3_DEFINITION ==
    [index_name |-> Some("LSI3"), hash_key |-> "PK", range_key |-> Some("LSI3SK")]

\* a caller-declared global index whose GlobalSecondaryIndexDefinition has range_key: None
HashOnly_DEFINITION ==
    [index_name |-> Some("GSI2"), hash_key |-> "GSI2PK", range_key |-> None]

\* a caller-declared primary key whose PrimaryKeyDefinition has range_key: None
HashOnlyPrimary_DEFINITION ==
    [index_name |-> None, hash_key |-> "PK", range_key |-> None]

(***************************************************************************)
(* expr::KeyCondition                                                      *)
(* [key_type, partition_key, sort_key]; sort_key is an Option of           *)
(* [kind, args], kind one of the SortKeyCondition variants.                *)
(***************************************************************************)
PARTITION_KEY_EXPRESSION ==
    <<"#", "k", "e", "y", "_", "P", "K", " ", "=", " ", ":", "k", "e", "y", "_", "P",
      "K">>

PARTITION_EQ_KEY_EXPRESSION ==
    <<"#", "k", "e", "y", "_", "P", "K", " ", "=", " ", ":", "k", "e", "y", "_", "P",
      "K", " ", "A", "N", "D", " ", "#", "k", "e", "y", "_", "S", "K", " ", "=", " ",
      ":", "k", "e", "y", "_", "S", "K">>

PARTITION_BETWEEN_KEY_EXPRESSION ==
    <<"#", "k", "e", "y", "_", "P", "K", " ", "=", " ", ":", "k", "e", "y", "_", "P",
      "K", " ", "A", "N", "D", " ", "#", "k", "e", "y", "_", "S", "K", " ", "B", "E",
      "T", "W", "E", "E", "N", " ", ":", "k", "e", "y", "_", "S", "K", "_", "S", "T",
      "A", "R", "T", " ", "A", "N", "D", " ", ":", "k", "e", "y", "_", "S", "K", "_",
      "E", "N", "D">>

PARTITION_LT_KEY_EXPRESSION ==
    <<"#", "k", "e", "y", "_", "P", "K", " ", "=", " ", ":", "k", "e", "y", "_", "P",
      "K", " ", "A", "N", "D", " ", "#", "k", "e", "y", "_", "S", "K", " ", "<", " ",
      ":", "k", "e", "y", "_", "S", "K">>

PARTITION_LTE_KEY_EXPRESSION ==
    <<"#", "k", "e", "y", "_", "P", "K", " ", "=", " ", ":", "k", "e", "y", "_", "P",
      "K", " ", "A", "N", "D", " ", "#", "k", "e", "y", "_", "S", "K", " ", "<", "=",
      " ", ":", "k", "e", "y", "_", "S", "K">>

PARTITION_GT_KEY_EXPRESSION ==
    <<"#", "k", "e", "y", "_", "P", "K", " ", "=", " ", ":", "k", "e", "y", "_", "P",
      "K", " ", "A", "N", "D", " ", "#", "k", "e", "y", "_", "S", "K", " ", ">", " ",
      ":", "k", "e", "y", "_", "S", "K">>

PARTITION_GTE_KEY_EXPRESSION ==
    <<"#", "k", "e", "y", "_", "P", "K", " ", "=", " ", ":", "k", "e", "y", "_", "P",
      "K", " ", "A", "N", "D", " ", "#", "k", "e", "y", "_", "S", "K", " ", ">", "=",
      " ", ":", "k", "e", "y", "_", "S", "K">>

PARTITION_BEGINS_WITH_KEY_EXPRESSION ==
    <<"#", "k", "e", "y", "_", "P", "K", " ", "=", " ", ":", "k", "e", "y", "_", "P",
      "K", " ", "A", "N", "D", " ", "b", "e", "g", "i", "n", "s", "_", "w", "i", "t",
      "h", "(", "#", "k", "e", "y", "_", "S", "K", ",", " ", ":", "k", "e", "y", "_",
      "S", "K", ")">>

KEY_PK_NAME == <<"#", "k", "e", "y", "_", "P", "K">>

KEY_SK_NAME == <<"#", "k", "e", "y", "_", "S", "K">>

KEY_PK_VALUE == <<":", "k", "e", "y", "_", "P", "K">>

KEY_SK_VALUE == <<":", "k", "e", "y", "_", "S", "K">>

KEY_SK_START_VALUE == <<":", "k", "e", "y", "_", "S", "K", "_", "S", "T", "A", "R", "T">>

KEY_SK_END_VALUE == <<":", "k", "e", "y", "_", "S", "K", "_", "E", "N", "D">>

KeyCondition_in_partition(K, partition) ==
    [key_type |-> K, partition_key |-> partition, sort_key |-> None]

KeyCondition_expression(self) ==
    IF self.sort_key = None THEN PARTITION_KEY_EXPRESSION
    ELSE CASE Unwrap(self.sort_key).kind = "Equal" -> PARTITION_EQ_KEY_EXPRESSION
           [] Unwrap(self.sort_key).kind = "Between" -> PARTITION_BETWEEN_KEY_EXPRESSION
           [] Unwrap(self.sort_key).kind = "LessThan" -> PARTITION_LT_KEY_EXPRESSION
           [] Unwrap(self.sort_key).kind = "LessThanOrEqual" -> PARTITION_LTE_KEY_EXPRESSION
           [] Unwrap(self.sort_key).kind = "GreaterThan" -> PARTITION_GT_KEY_EXPRESSION
           [] Unwrap(self.sort_key).kind = "GreaterThanOrEqual" -> PARTITION_GTE_KEY_EXPRESSION
           [] Unwrap(self.sort_key).kind = "BeginsWith" -> PARTITION_BEGINS_WITH_KEY_EXPRESSION

KeyCondition_names(self) ==
    IF IsSome(self.key_type.range_key)
    THEN << <<KEY_PK_NAME, self.key_type.hash_key>>,
            <<KEY_SK_NAME, Unwrap(self.key_type.range_key)>> >>
    ELSE << <<KEY_PK_NAME, self.key_type.hash_key>> >>

KeyCondition_values(self) ==
    IF IsSome(self.key_type.range_key) /\ IsSome(self.sort_key)
    THEN IF Unwrap(self.sort_key).kind = "Between"
         THEN << <<KEY_PK_VALUE, self.partition_key>>,
                 <<KEY_SK_START_VALUE, Unwrap(self.sort_key).args[1]>>,
                 <<KEY_SK_END_VALUE, Unwrap(self.sort_key).args[2]>> >>
         ELSE << <<KEY_PK_VALUE, self.partition_key>>,
                 <<KEY_SK_VALUE, Unwrap(self.sort_key).args[1]>> >>
    ELSE << <<KEY_PK_VALUE, self.partition_key>> >>

(***************************************************************************)
(* expr::Projection                                                        *)
(* An attribute name is the sequence of its bytes; a byte that is not      *)
(* ASCII is written "0x..".                                                *)
(***************************************************************************)
\* Projection::RESERVED_WORDS, the words of the list that the attribute
\* names of this model can reach after make_ascii_uppercase
RESERVED_WORDS ==
    {<<"A", "D", "D">>,
     <<"A", "L", "L">>,
     <<"A", "S">>,
     <<"A", "S", "C">>,
     <<"A", "T">>,
     <<"B", "Y">>,
     <<"K", "E", "Y">>,
     <<"L", "O", "C", "A", "L", "T", "I", "M", "E", "S", "T", "A", "M", "P">>,
     <<"N", "A", "M", "E">>,
     <<"S", "E", "T">>,
     <<"V", "O", "I", "D">>,
     <<"W", "I", "N", "D", "O", "W">>}

LONGEST_RESERVED == 14

ToUpperMap ==
       "a" :> "A" @@ "b" :> "B" @@ "c" :> "C" @@ "d" :> "D" @@ "e" :> "E" @@ "f" :> "F" @@
       "g" :> "G" @@ "h" :> "H" @@ "i" :> "I" @@ "j" :> "J" @@ "k" :> "K" @@ "l" :> "L" @@
       "m" :> "M" @@ "n" :> "N" @@ "o" :> "O" @@ "p" :> "P" @@ "q" :> "Q" @@ "r" :> "R" @@
       "s" :> "S" @@ "t" :> "T" @@ "u" :> "U" @@ "v" :> "V" @@ "w" :> "W" @@ "x" :> "X" @@
       "y" :> "Y" @@ "z" :> "Z"

\* u8::make_ascii_uppercase on every byte of the buffer
make_ascii_uppercase(buf) ==
    [i \in DOMAIN buf |-> IF buf[i] \in DOMAIN ToUpperMap THEN ToUpperMap[buf[i]] ELSE buf[i]]

AsciiAlphanumeric ==
    {     "a", "b", "c", "d", "e", "f", "g", "h", "i", "j", "k", "l", "m",
     "n", "o", "p", "q", "r", "s", "t", "u", "v", "w", "x", "y", "z",
     "A", "B", "C", "D", "E", "F", "G", "H", "I", "J", "K", "L", "M",
     "N", "O", "P", "Q", "R", "S", "T", "U", "V", "W", "X", "Y", "Z",
     "0", "1", "2", "3", "4", "5", "6", "7", "8", "9"}

\* let is_invalid = |c: u8| !c.is_ascii_alphanumeric() && c != b'_'
is_invalid(c) == c \notin AsciiAlphanumeric /\ c # "_"

DecimalDigits == <<"0", "1", "2", "3", "4", "5", "6", "7", "8", "9">>

RECURSIVE Decimal(_)
Decimal(n) ==
    IF n < 10 THEN <<DecimalDigits[n + 1]>>
    ELSE Decimal(n \div 10) \o <<DecimalDigits[(n % 10) + 1]>>

\* format!("{count:03}"): decimal, zero-padded on the left to at least 3 digits
ZeroPad3(n) ==
    CASE Len(Decimal(n)) = 1 -> <<"0", "0">> \o Decimal(n)
      [] Len(Decimal(n)) = 2 -> <<"0">> \o Decimal(n)
      [] OTHER -> Decimal(n)

\* a slip: the name is compared as written, without make_ascii_uppercase
is_reserved_case_sensitive(s) ==
    IF Len(s) <= LONGEST_RESERVED
    THEN s \in RESERVED_WORDS
    ELSE FALSE

\* the reserved-word test of one name
is_reserved(s) ==
    IF Len(s) <= LONGEST_RESERVED
    THEN make_ascii_uppercase(s) \in RESERVED_WORDS
    ELSE FALSE

\* a slip: a name seen before is compiled again
Projection_step_no_dedup(st, s) ==
    IF is_reserved(s) \/ \E i \in DOMAIN s : is_invalid(s[i])
    THEN LET var == <<"#", "p", "r", "j", "_">> \o ZeroPad3(st.count)
         IN  [seen |-> st.seen \cup {s},
              expression |-> st.expression \o var \o <<",">>,
              names |-> Append(st.names, <<var, s>>),
              count |-> st.count + 1]
    ELSE [seen |-> st.seen \cup {s},
          expression |-> st.expression \o s \o <<",">>,
          names |-> st.names,
          count |-> st.count]

\* one iteration of the loop of Projection::new on the name s;
\* st is [seen, expression, names, count]
Projection_step(st, s) ==
    IF s \in st.seen THEN st
    ELSE IF is_reserved(s) \/ \E i \in DOMAIN s : is_invalid(s[i])
         THEN LET var == <<"#", "p", "r", "j", "_">> \o ZeroPad3(st.count)
              IN  [seen |-> st.seen \cup {s},
                   expression |-> st.expression \o var \o <<",">>,
                   names |-> Append(st.names, <<var, s>>),
                   count |-> st.count + 1]
         ELSE [seen |-> st.seen \cup {s},
               expression |-> st.expression \o s \o <<",">>,
               names |-> st.names,
               count |-> st.count]

RECURSIVE Projection_loop(_, _)
Projection_loop(st, attr_names) ==
    IF attr_names = <<>> THEN st
    ELSE Projection_loop(Projection_step(st, Head(attr_names)), Tail(attr_names))

\* String::truncate(len.saturating_sub(1))
TruncateLast(s) == IF s = <<>> THEN s ELSE SubSeq(s, 1, Len(s) - 1)

Projection_new(attr_names) ==
    LET st == Projection_loop([seen |-> {}, expression |-> <<>>, names |-> <<>>, count |-> 0],
                              attr_names)
    IN  [expression |-> TruncateLast(st.expression), names |-> st.names]

(***************************************************************************)
(* model: the execute paths                                                *)
(* Each returns [span, request]: the fields recorded on the tracing span   *)
(* and the request handed to the client.  A span field left field::Empty   *)
(* is None.                                                                *)
(***************************************************************************)
NoRequest ==
    [operation |-> "", condition_expression |-> None, update_expression |-> None,
     filter_expression |-> None, key_condition_expression |-> None,
     projection_expression |-> None,
     expression_attribute_names |-> None, expression_attribute_values |-> None]

NoSpan ==
    [conditional_expression |-> None,
     expression_attribute_names |-> None, expression_attribute_values |-> None]

\* PutOne::execute and DeleteOne::execute share this body: the condition,
\* its names, and its values captured before the sensitive ones are added
ConditionOnly_execute(operation, cnd) ==
    IF IsSome(cnd)
    THEN LET c == Unwrap(cnd)
             names == IF c.names # <<>> THEN Some(Collect(c.names)) ELSE None
             has_values == c.values # <<>> \/ c.sensitive_values # <<>>
             captured == Collect(c.values)
             values == IF has_values
                       THEN Some(Extend(captured, c.sensitive_values))
                       ELSE None
         IN  [span |-> [conditional_expression |-> Some(c.expression),
                        expression_attribute_names |-> names,
                        expression_attribute_values |->
                            IF has_values THEN Some(captured) ELSE None],
              request |-> [NoRequest EXCEPT
                             !.operation = operation,
                             !.condition_expression = Some(c.expression),
                             !.expression_attribute_names = names,
                             !.expression_attribute_values = values]]
    ELSE [span |-> NoSpan, request |-> [NoRequest EXCEPT !.operation = operation]]

PutOne_execute(cnd) == ConditionOnly_execute("PutItem", cnd)

DeleteOne_execute(cnd) == ConditionOnly_execute("DeleteItem", cnd)

\* a slip: the span is recorded after the sensitive values were merged in
UpdateOne_execute_late_capture(upd, cnd) ==
    LET cnd_names == IF IsSome(cnd) THEN Unwrap(cnd).names ELSE <<>>
        cnd_values == IF IsSome(cnd) THEN Unwrap(cnd).values ELSE <<>>
        cnd_sensitive_values == IF IsSome(cnd) THEN Unwrap(cnd).sensitive_values ELSE <<>>
        needs_names == cnd_names # <<>> \/ upd.names # <<>>
        names == IF needs_names THEN Some(Collect(cnd_names \o upd.names)) ELSE None
        needs_values == \/ cnd_values # <<>>
                        \/ cnd_sensitive_values # <<>>
                        \/ upd.values # <<>>
                        \/ upd.sensitive_values # <<>>
        vals == Extend(Extend(Extend(Extend(EmptyMap, cnd_values), upd.values),
                              cnd_sensitive_values), upd.sensitive_values)
    IN  [span |-> [conditional_expression |->
                       IF IsSome(cnd) THEN Some(Unwrap(cnd).expression) ELSE None,
                   expression_attribute_names |-> names,
                   expression_attribute_values |->
                       IF needs_values THEN Some(vals) ELSE None],
         request |-> [NoRequest EXCEPT
                        !.operation = "UpdateItem",
                        !.update_expression = Some(upd.expression),
                        !.condition_expression =
                            IF IsSome(cnd) THEN Some(Unwrap(cnd).expression) ELSE None,
                        !.expression_attribute_names = names,
                        !.expression_attribute_values =
                            IF needs_values THEN Some(vals) ELSE None]]

UpdateOne_execute(upd, cnd) ==
    LET cnd_names == IF IsSome(cnd) THEN Unwrap(cnd).names ELSE <<>>
        cnd_values == IF IsSome(cnd) THEN Unwrap(cnd).values ELSE <<>>
        cnd_sensitive_values == IF IsSome(cnd) THEN Unwrap(cnd).sensitive_values ELSE <<>>
        needs_names == cnd_names # <<>> \/ upd.names # <<>>
        names == IF needs_names THEN Some(Collect(cnd_names \o upd.names)) ELSE None
        needs_values == \/ cnd_values # <<>>
                        \/ cnd_sensitive_values # <<>>
                        \/ upd.values # <<>>
                        \/ upd.sensitive_values # <<>>
        captured == Extend(Extend(EmptyMap, cnd_values), upd.values)
        vals == Extend(Extend(captured, cnd_sensitive_values), upd.sensitive_values)
    IN  [span |-> [conditional_expression |->
                       IF IsSome(cnd) THEN Some(Unwrap(cnd).expression) ELSE None,
                   expression_attribute_names |-> names,
                   expression_attribute_values |->
                       IF needs_values THEN Some(captured) ELSE None],
         request |-> [NoRequest EXCEPT
                        !.operation = "UpdateItem",
                        !.update_expression = Some(upd.expression),
                        !.condition_expression =
                            IF IsSome(cnd) THEN Some(Unwrap(cnd).expression) ELSE None,
                        !.expression_attribute_names = names,
                        !.expression_attribute_values =
                            IF needs_values THEN Some(vals) ELSE None]]

NoTransactItem ==
    [kind |-> "", condition_expression |-> None, update_expression |-> None,
     expression_attribute_names |-> None, expression_attribute_values |-> None]

\* PutTransact::build: what it sets on aws_sdk_dynamodb::types::Put besides
\* the item and the table name
PutTransact_build(cnd) ==
    IF IsSome(cnd)
    THEN LET c == Unwrap(cnd)
             names == IF c.names # <<>> THEN Some(Collect(c.names)) ELSE None
             values == IF c.values # <<>> \/ c.sensitive_values # <<>>
                       THEN Some(Collect(c.values \o c.sensitive_values))
                       ELSE None
         IN  [NoTransactItem EXCEPT
                !.kind = "Put",
                !.condition_expression = Some(c.expression),
                !.expression_attribute_names = names,
                !.expression_attribute_values = values]
    ELSE [NoTransactItem EXCEPT !.kind = "Put"]

\* a slip: the sensitive values are chained in before the plain ones
UpdateTransact_build_sensitive_first(upd, cnd) ==
    [NoTransactItem EXCEPT
        !.kind = "Update",
        !.update_expression = Some(upd.expression),
        !.condition_expression =
            IF IsSome(cnd) THEN Some(Unwrap(cnd).expression) ELSE None,
        !.expression_attribute_names =
            LET cnd_names == IF IsSome(cnd) THEN Unwrap(cnd).names ELSE <<>>
            IN  IF cnd_names # <<>> \/ upd.names # <<>>
                THEN Some(Collect(cnd_names \o upd.names)) ELSE None,
        !.expression_attribute_values =
            LET c == IF IsSome(cnd) THEN Unwrap(cnd)
                     ELSE [values |-> <<>>, sensitive_values |-> <<>>]
            IN  IF \/ c.values # <<>> \/ c.sensitive_values # <<>>
                   \/ upd.values # <<>> \/ upd.sensitive_values # <<>>
                THEN Some(Collect(c.sensitive_values \o upd.sensitive_values
                                  \o c.values \o upd.values))
                ELSE None]

\* UpdateTransact::build: what it sets on aws_sdk_dynamodb::types::Update
\* besides the key and the table name, with a condition and without one
UpdateTransact_build(upd, cnd) ==
    IF IsSome(cnd)
    THEN LET c == Unwrap(cnd)
             needs_names == c.names # <<>> \/ upd.names # <<>>
             names == IF needs_names THEN Some(Collect(c.names \o upd.names)) ELSE None
             needs_values == \/ c.values # <<>>
                             \/ c.sensitive_values # <<>>
                             \/ upd.values # <<>>
                             \/ upd.sensitive_values # <<>>
             values == IF needs_values
                       THEN Some(Collect(c.values \o upd.values
                                         \o c.sensitive_values \o upd.sensitive_values))
                       ELSE None
         IN  [NoTransactItem EXCEPT
                !.kind = "Update",
                !.update_expression = Some(upd.expression),
                !.condition_expression = Some(c.expression),
                !.expression_attribute_names = names,
                !.expression_attribute_values = values]
    ELSE LET needs_names == upd.names # <<>>
             names == IF needs_names THEN Some(Collect(upd.names)) ELSE None
             needs_values == upd.values # <<>> \/ upd.sensitive_values # <<>>
             values == IF needs_values
                       THEN Some(Collect(upd.values \o upd.sensitive_values))
                       ELSE None
         IN  [NoTransactItem EXCEPT
                !.kind = "Update",
                !.update_expression = Some(upd.expression),
                !.expression_attribute_names = names,
                !.expression_attribute_values = values]

\* Query::execute and Scan::execute: the key condition (a Query only), the
\* static projection and the filter, chained in that order
Read_execute(operation, kc, prj, flt) ==
    LET filter_names == IF IsSome(flt) THEN Unwrap(flt).names ELSE <<>>
        filter_values == IF IsSome(flt) THEN Unwrap(flt).values ELSE <<>>
        filter_sensitive_values == IF IsSome(flt) THEN Unwrap(flt).sensitive_values ELSE <<>>
        key_names == IF IsSome(kc) THEN KeyCondition_names(Unwrap(kc)) ELSE <<>>
        key_values == IF IsSome(kc) THEN KeyCondition_values(Unwrap(kc)) ELSE <<>>
        projection_names == IF IsSome(prj) THEN Unwrap(prj).names ELSE <<>>
        expression_attribute_names ==
            Collect(key_names \o projection_names \o filter_names)
        captured == Collect(key_values \o filter_values)
        expression_attribute_values == Extend(captured, filter_sensitive_values)
    IN  [span |-> [conditional_expression |-> None,
                   expression_attribute_names |-> Some(expression_attribute_names),
                   expression_attribute_values |-> Some(captured)],
         request |-> [NoRequest EXCEPT
                        !.operation = operation,
                        !.key_condition_expression =
                            IF IsSome(kc) THEN Some(KeyCondition_expression(Unwrap(kc)))
                            ELSE None,
                        !.projection_expression =
                            IF IsSome(prj) THEN Some(Unwrap(prj).expression) ELSE None,
                        !.filter_expression =
                            IF IsSome(flt) THEN Some(Unwrap(flt).expression) ELSE None,
                        !.expression_attribute_names =
                            IF expression_attribute_names # EmptyMap
                            THEN Some(expression_attribute_names) ELSE None,
                        !.expression_attribute_values =
                            IF expression_attribute_values # EmptyMap
                            THEN Some(expression_attribute_values) ELSE None]]

Query_execute(kc, prj, flt) == Read_execute("Query", Some(kc), prj, flt)

Scan_execute(prj, flt) == Read_execute("Scan", None, prj, flt)

\* caller-written templates and placeholder keys
SET_X == <<"#", "x", "=", ":", "x">>

EXISTS_Y == <<"(", "#", "y", ")">>

NAME_X == <<"#", "x">>

NAME_Y == <<"#", "y">>

NAME_XX == <<"#", "x", "x">>

VALUE_X == <<":", "x">>

VALUE_Y == <<":", "y">>

VALUE_XX == <<":", "x", "x">>

BARE_X == <<"x">>

\* projected attribute names
ATTR_ID == <<"i", "d">>

ATTR_AS == <<"a", "s">>

\* a slip: the assertion is compiled out
ensure_range_key_unchecked(K) == TRUE

\* KeyCondition::ensure_range_key: the assertion holds
ensure_range_key(K) == IsSome(K.range_key)

\* KeyCondition::specific_item, on a key definition that has a range key
KeyCondition_specific_item(self, sort) ==
    [self EXCEPT !.sort_key = Some([kind |-> "Equal", args |-> <<sort>>])]

(***************************************************************************)
(* Building fragments and executing operations                             *)
(***************************************************************************)
MaxAppends == 3

MaxCalls == 2

MaxTemplateLen == 4

\* every character sequence over `alphabet` of length at most n
RECURSIVE SeqsUpTo(_, _)
SeqsUpTo(alphabet, n) ==
    IF n = 0 THEN {<<>>}
    ELSE LET shorter == SeqsUpTo(alphabet, n - 1)
         IN  shorter \cup {Append(t, c) : t \in shorter, c \in alphabet}

\* what callers pass to the builders of an operation that is executed
ExecDomain ==
    [templates |-> {SET_X, EXISTS_Y},
     name_keys |-> {NAME_X, NAME_Y},
     value_keys |-> {VALUE_X, VALUE_Y},
     attributes |-> {"field", "key"},
     values |-> {1, 2},
     max |-> MaxAppends]

\* what callers pass to a builder exercised on its own: any short template
\* over the two sigils and a name character, and keys written with and
\* without their sigil
BuildDomain ==
    [templates |-> SeqsUpTo({"#", ":", "x"}, MaxTemplateLen),
     name_keys |-> {NAME_X, BARE_X, NAME_XX},
     value_keys |-> {VALUE_X, BARE_X, VALUE_XX},
     attributes |-> {"field"},
     values |-> {1},
     max |-> MaxCalls]

NoRaw == [template |-> None, names |-> <<>>, values |-> <<>>, sensitive_values |-> <<>>]

Operations == {"PutItem", "UpdateItem", "DeleteItem", "Query", "Scan"}

Builders == {"Filter", "Update", "Condition"}

TotalAppended == Appended(filter) + Appended(update) + Appended(condition)

Building == request = None

FilterNew(D) ==
    /\ Building /\ op \in {"Query", "Scan", "Filter"} /\ filter = None
    /\ \E t \in D.templates :
        /\ filter' = Some(Filter_new(t))
        /\ raw' = [raw EXCEPT !.Filter.template = Some(t)]
    /\ UNCHANGED <<op, update, condition, key_condition, projection, span, request>>
    /\ UNCHANGED exprOthers

FilterName(D) ==
    /\ Building /\ IsSome(filter) /\ TotalAppended < D.max
    /\ \E k \in D.name_keys, v \in D.attributes :
        /\ filter' = Some(Filter_name(Unwrap(filter), k, v))
        /\ raw' = [raw EXCEPT !.Filter.names = Append(@, k)]
    /\ UNCHANGED <<op, update, condition, key_condition, projection, span, request>>
    /\ UNCHANGED exprOthers

FilterValue(D) ==
    /\ Building /\ IsSome(filter) /\ TotalAppended < D.max
    /\ \E k \in D.value_keys, v \in D.values :
        /\ filter' = Some(Filter_value(Unwrap(filter), k, v))
        /\ raw' = [raw EXCEPT !.Filter.values = Append(@, k)]
    /\ UNCHANGED <<op, update, condition, key_condition, projection, span, request>>
    /\ UNCHANGED exprOthers

FilterSensitiveValue(D) ==
    /\ Building /\ IsSome(filter) /\ TotalAppended < D.max
    /\ \E k \in D.value_keys, v \in D.values :
        /\ filter' = Some(Filter_sensitive_value(Unwrap(filter), k, v))
        /\ raw' = [raw EXCEPT !.Filter.sensitive_values = Append(@, k)]
    /\ UNCHANGED <<op, update, condition, key_condition, projection, span, request>>
    /\ UNCHANGED exprOthers

UpdateNew(D) ==
    /\ Building /\ op \in {"UpdateItem", "Update"} /\ update = None
    /\ \E t \in D.templates :
        /\ update' = Some(Update_new(t))
        /\ raw' = [raw EXCEPT !.Update.template = Some(t)]
    /\ UNCHANGED <<op, filter, condition, key_condition, projection, span, request>>
    /\ UNCHANGED exprOthers

UpdateName(D) ==
    /\ Building /\ IsSome(update) /\ TotalAppended < D.max
    /\ \E k \in D.name_keys, v \in D.attributes :
        /\ update' = Some(Update_name(Unwrap(update), k, v))
        /\ raw' = [raw EXCEPT !.Update.names = Append(@, k)]
    /\ UNCHANGED <<op, filter, condition, key_condition, projection, span, request>>
    /\ UNCHANGED exprOthers

UpdateValue(D) ==
    /\ Building /\ IsSome(update) /\ TotalAppended < D.max
    /\ \E k \in D.value_keys, v \in D.values :
        /\ update' = Some(Update_value(Unwrap(update), k, v))
        /\ raw' = [raw EXCEPT !.Update.values = Append(@, k)]
    /\ UNCHANGED <<op, filter, condition, key_condition, projection, span, request>>
    /\ UNCHANGED exprOthers

UpdateSensitiveValue(D) ==
    /\ Building /\ IsSome(update) /\ TotalAppended < D.max
    /\ \E k \in D.value_keys, v \in D.values :
        /\ update' = Some(Update_sensitive_value(Unwrap(update), k, v))
        /\ raw' = [raw EXCEPT !.Update.sensitive_values = Append(@, k)]
    /\ UNCHANGED <<op, filter, condition, key_condition, projection, span, request>>
    /\ UNCHANGED exprOthers

ConditionNew(D) ==
    /\ Building /\ op \in {"PutItem", "UpdateItem", "DeleteItem", "Condition"}
    /\ condition = None
    /\ \E t \in D.templates :
        /\ condition' = Some(Condition_new(t))
        /\ raw' = [raw EXCEPT !.Condition.template = Some(t)]
    /\ UNCHANGED <<op, filter, update, key_condition, projection, span, request>>
    /\ UNCHANGED exprOthers

ConditionName(D) ==
    /\ Building /\ IsSome(condition) /\ TotalAppended < D.max
    /\ \E k \in D.name_keys, v \in D.attributes :
        /\ condition' = Some(Condition_name(Unwrap(condition), k, v))
        /\ raw' = [raw EXCEPT !.Condition.names = Append(@, k)]
    /\ UNCHANGED <<op, filter, update, key_condition, projection, span, request>>
    /\ UNCHANGED exprOthers

ConditionValue(D) ==
    /\ Building /\ IsSome(condition) /\ TotalAppended < D.max
    /\ \E k \in D.value_keys, v \in D.values :
        /\ condition' = Some(Condition_value(Unwrap(condition), k, v))
        /\ raw' = [raw EXCEPT !.Condition.values = Append(@, k)]
    /\ UNCHANGED <<op, filter, update, key_condition, projection, span, request>>
    /\ UNCHANGED exprOthers

ConditionSensitiveValue(D) ==
    /\ Building /\ IsSome(condition) /\ TotalAppended < D.max
    /\ \E k \in D.value_keys, v \in D.values :
        /\ condition' = Some(Condition_sensitive_value(Unwrap(condition), k, v))
        /\ raw' = [raw EXCEPT !.Condition.sensitive_values = Append(@, k)]
    /\ UNCHANGED <<op, filter, update, key_condition, projection, span, request>>
    /\ UNCHANGED exprOthers

\* Put::execute / ConditionalPut::execute
PutOneExecute ==
    /\ Building /\ op = "PutItem"
    /\ span' = Some(PutOne_execute(condition).span)
    /\ request' = Some(PutOne_execute(condition).request)
    /\ UNCHANGED <<op, filter, update, condition, key_condition, projection, raw>>
    /\ UNCHANGED exprOthers

\* UpdateWithExpr::execute / ConditionalUpdate::execute
UpdateOneExecute ==
    /\ Building /\ op = "UpdateItem" /\ IsSome(update)
    /\ span' = Some(UpdateOne_execute(Unwrap(update), condition).span)
    /\ request' = Some(UpdateOne_execute(Unwrap(update), condition).request)
    /\ UNCHANGED <<op, filter, update, condition, key_condition, projection, raw>>
    /\ UNCHANGED exprOthers

\* Put::transact / ConditionalPut::transact, then PutTransact::build, on a
\* clone of the builder that was executed
PutTransactBuild ==
    /\ ~Building /\ op = "PutItem" /\ transact_item = None
    /\ transact_item' = Some(PutTransact_build(condition))
    /\ UNCHANGED exprVars
    /\ UNCHANGED txOthers

\* UpdateWithExpr::transact / ConditionalUpdate::transact, then
\* UpdateTransact::build, on a clone of the builder that was executed
UpdateTransactBuild ==
    /\ ~Building /\ op = "UpdateItem" /\ transact_item = None
    /\ transact_item' = Some(UpdateTransact_build(Unwrap(update), condition))
    /\ UNCHANGED exprVars
    /\ UNCHANGED txOthers

TransactIdle == transact_item = None

\* Delete::execute / ConditionalDelete::execute
DeleteOneExecute ==
    /\ Building /\ op = "DeleteItem"
    /\ span' = Some(DeleteOne_execute(condition).span)
    /\ request' = Some(DeleteOne_execute(condition).request)
    /\ UNCHANGED <<op, filter, update, condition, key_condition, projection, raw>>
    /\ UNCHANGED exprOthers

QueryExecute ==
    /\ Building /\ op = "Query" /\ IsSome(key_condition)
    /\ span' = Some(Query_execute(Unwrap(key_condition), projection, filter).span)
    /\ request' = Some(Query_execute(Unwrap(key_condition), projection, filter).request)
    /\ UNCHANGED <<op, filter, update, condition, key_condition, projection, raw>>
    /\ UNCHANGED exprOthers

ScanExecute ==
    /\ Building /\ op = "Scan"
    /\ span' = Some(Scan_execute(projection, filter).span)
    /\ request' = Some(Scan_execute(projection, filter).request)
    /\ UNCHANGED <<op, filter, update, condition, key_condition, projection, raw>>
    /\ UNCHANGED exprOthers

\* the key conditions and static projections a Query or Scan of the model carries
QueryKeyConditions ==
    {KeyCondition_in_partition(Primary_DEFINITION, 1),
     KeyCondition_specific_item(KeyCondition_in_partition(Gsi1_DEFINITION, 1), 2),
     KeyCondition_in_partition(HashOnly_DEFINITION, 2)}

StaticProjections ==
    {None, Some(Projection_new(<<ATTR_ID, ATTR_AS>>))}

(***************************************************************************)
(* The sort-key predicates of KeyCondition                                 *)
(* A predicate takes the condition by value.  When ensure_range_key's      *)
(* assertion fails the call unwinds: the condition it was given is         *)
(* dropped and nothing is returned.                                        *)
(***************************************************************************)
\* the message of the assertion of ensure_range_key
ensure_range_key_message(K) ==
    IF IsSome(K.index_name)
    THEN <<"Key on index", Unwrap(K.index_name), "does not have a range key">>
    ELSE <<"Primary key does not have a range key">>

KeyCondition_between(self, start, end) ==
    [self EXCEPT !.sort_key = Some([kind |-> "Between", args |-> <<start, end>>])]

KeyCondition_less_than(self, sort) ==
    [self EXCEPT !.sort_key = Some([kind |-> "LessThan", args |-> <<sort>>])]

KeyCondition_less_than_or_equal(self, sort) ==
    [self EXCEPT !.sort_key = Some([kind |-> "LessThanOrEqual", args |-> <<sort>>])]

KeyCondition_greater_than(self, sort) ==
    [self EXCEPT !.sort_key = Some([kind |-> "GreaterThan", args |-> <<sort>>])]

KeyCondition_greater_than_or_equal(self, sort) ==
    [self EXCEPT !.sort_key = Some([kind |-> "GreaterThanOrEqual", args |-> <<sort>>])]

KeyCondition_begins_with(self, sort) ==
    [self EXCEPT !.sort_key = Some([kind |-> "BeginsWith", args |-> <<sort>>])]

\* the key definitions a KeyCondition is built over
KeyDefinitions ==
    {Primary_DEFINITION, Gsi1_DEFINITION, Lsi1_DEFINITION,
     HashOnly_DEFINITION, HashOnlyPrimary_DEFINITION}

PartitionValues == {1, 2}

SortValues == {1, 2}

\* KeyCondition::<K>::in_partition(partition)
KeyConditionInPartition ==
    /\ Building /\ op = "Query" /\ key_condition = None /\ panicked = None
    /\ \E K \in KeyDefinitions, partition \in PartitionValues :
          key_condition' = Some(KeyCondition_in_partition(K, partition))
    /\ UNCHANGED <<op, filter, update, condition, projection, raw, span, request, panicked>>
    /\ UNCHANGED kcOthers

\* the common shape of a sort-key predicate: Self::ensure_range_key(), then
\* the sort key is set and self is returned
SortKeyPredicate(predicate, returned_self) ==
    /\ Building /\ op = "Query" /\ IsSome(key_condition) /\ panicked = None
    /\ IF ensure_range_key(Unwrap(key_condition).key_type)
       THEN /\ key_condition' = Some(returned_self)
            /\ panicked' = None
       ELSE /\ key_condition' = None
            /\ panicked' = Some([predicate |-> predicate,
                                 key_type |-> Unwrap(key_condition).key_type,
                                 message |-> ensure_range_key_message(
                                                Unwrap(key_condition).key_type)])
    /\ UNCHANGED <<op, filter, update, condition, projection, raw, span, request>>
    /\ UNCHANGED kcOthers

KeyConditionSpecificItem ==
    \E sort \in SortValues :
        SortKeyPredicate("specific_item",
                         KeyCondition_specific_item(Unwrap(key_condition), sort))

KeyConditionBetween ==
    \E start \in SortValues, end \in SortValues :
        SortKeyPredicate("between", KeyCondition_between(Unwrap(key_condition), start, end))

KeyConditionLessThan ==
    \E sort \in SortValues :
        SortKeyPredicate("less_than", KeyCondition_less_than(Unwrap(key_condition), sort))

KeyConditionLessThanOrEqual ==
    \E sort \in SortValues :
        SortKeyPredicate("less_than_or_equal",
                         KeyCondition_less_than_or_equal(Unwrap(key_condition), sort))

KeyConditionGreaterThan ==
    \E sort \in SortValues :
        SortKeyPredicate("greater_than",
                         KeyCondition_greater_than(Unwrap(key_condition), sort))

KeyConditionGreaterThanOrEqual ==
    \E sort \in SortValues :
        SortKeyPredicate("greater_than_or_equal",
                         KeyCondition_greater_than_or_equal(Unwrap(key_condition), sort))

KeyConditionBeginsWith ==
    \E sort \in SortValues :
        SortKeyPredicate("begins_with",
                         KeyCondition_begins_with(Unwrap(key_condition), sort))

\* a query is about to be described: no key condition yet
KeyConditionInit ==
    /\ op = "Query"
    /\ filter = None /\ update = None /\ condition = None
    /\ key_condition = None
    /\ projection = None
    /\ raw = [b \in Builders |-> NoRaw]
    /\ span = None /\ request = None
    /\ panicked = None

PanicIdle == panicked = None

(***************************************************************************)
(* ProjectionSet::projection_expression and QueryInputExt::query           *)
(* A projection type is named by a string; a projection set is             *)
(* [kind, types]: kind "blanket" is the ProjectionSet every single         *)
(* projection type implements, kind "projections" a set generated by       *)
(* projections! (which calls once_projection_expression!).                 *)
(***************************************************************************)
ENTITY_TYPE_ATTRIBUTE == <<"e", "n", "t", "i", "t", "y", "_", "t", "y", "p", "e">>

ATTR_NAME == <<"n", "a", "m", "e">>

ATTR_MIXED_AS == <<"A", "s">>

ATTR_ASS == <<"a", "s", "s">>

ATTR_DOTTED == <<"a", ".", "b">>

ATTR_LOCALTIMESTAMP == <<"l", "o", "c", "a", "l", "t", "i", "m", "e", "s", "t", "a", "m", "p">>

ATTR_LOCALTIMESTAMPS == <<"l", "o", "c", "a", "l", "t", "i", "m", "e", "s", "t", "a", "m", "p", "s">>

ATTR_EMPTY == <<>>

\* the names a caller of Projection::new passes
AttributeNames ==
    {ATTR_ID, ATTR_AS, ATTR_MIXED_AS, ATTR_ASS, ATTR_DOTTED,
     ATTR_LOCALTIMESTAMP, ATTR_LOCALTIMESTAMPS, ATTR_EMPTY}

ProjectionTypes == {"Flat", "UserView", "OrderView", "Blank"}

\* Projection::PROJECTED_ATTRIBUTES of each type.  "Flat" keeps the default
\* of Entity::PROJECTED_ATTRIBUTES, the empty list; "Blank" lists one
\* attribute whose name is the empty string.
PROJECTED_ATTRIBUTES(P) ==
    CASE P = "Flat" -> <<>>
      [] P = "UserView" -> <<ATTR_ID, ATTR_NAME>>
      [] P = "OrderView" -> <<ATTR_ID, ATTR_AS>>
      [] P = "Blank" -> <<ATTR_EMPTY>>

\* Projection::leak: the same expression and names, with static lifetime
leak(prj) == [expression |-> prj.expression, names |-> prj.names]

\* the closure of or_insert_with in the blanket projection_expression:
\* `all` ranges over the attribute names of P and tests each name
blanket_projection_expression(P) ==
    IF ~(\A i \in DOMAIN PROJECTED_ATTRIBUTES(P) : PROJECTED_ATTRIBUTES(P)[i] # <<>>)
    THEN None
    ELSE Some(leak(Projection_new(PROJECTED_ATTRIBUTES(P) \o <<ENTITY_TYPE_ATTRIBUTE>>)))

\* Iterator::flatten over the attribute lists
RECURSIVE flatten(_)
flatten(attributes) ==
    IF attributes = <<>> THEN <<>>
    ELSE Head(attributes) \o flatten(Tail(attributes))

\* __private::generate_projection_expression: `all` ranges over the
\* attribute lists and tests each list
generate_projection_expression(attributes) ==
    IF ~(\A i \in DOMAIN attributes : attributes[i] # <<>>)
    THEN None
    ELSE Some(leak(Projection_new(flatten(attributes) \o <<ENTITY_TYPE_ATTRIBUTE>>)))

\* once_projection_expression!: PROJECTIONS is the list of the types'
\* PROJECTED_ATTRIBUTES
once_projection_expression(types) ==
    generate_projection_expression([i \in DOMAIN types |-> PROJECTED_ATTRIBUTES(types[i])])

\* ProjectionSet::projection_expression(): the cached value when there is
\* one, the computed value otherwise
projection_expression(set, cache) ==
    IF cache # None THEN Unwrap(cache)
    ELSE IF set.kind = "blanket" THEN blanket_projection_expression(set.types[1])
         ELSE once_projection_expression(set.types)

MaxAttrs == 3

MaxVariants == 2

NoProjectionSet == [kind |-> "", types |-> <<>>]

ProjectionSetsOf ==
    {[kind |-> "blanket", types |-> <<P>>] : P \in ProjectionTypes}
    \cup {[kind |-> "projections", types |-> t] :
            t \in UNION {[1..n -> ProjectionTypes] : n \in 1..MaxVariants}}

\* a caller compiles a list of attribute names
ProjectionNew ==
    /\ projection_set = NoProjectionSet
    /\ compiled = None
    /\ compiled' = Some(Projection_new(attr_input))
    /\ UNCHANGED <<attr_input, projection_set, projection_once, returned, query>>
    /\ UNCHANGED prjOthers

\* a call of <Projections as ProjectionSet>::projection_expression()
ProjectionExpression ==
    /\ projection_set # NoProjectionSet
    /\ LET expr == projection_expression(projection_set, projection_once)
       IN  /\ projection_once' = Some(expr)
           /\ returned' = Some(expr)
    /\ UNCHANGED <<attr_input, compiled, projection_set, query>>
    /\ UNCHANGED prjOthers

\* QueryInputExt::query: Query::new, then .projection(p) when the set's
\* projection_expression() is Some(p)
QueryInputExtQuery ==
    /\ projection_set # NoProjectionSet
    /\ query = None
    /\ LET expr == projection_expression(projection_set, projection_once)
       IN  /\ projection_once' = Some(expr)
           /\ query' = Some([projection |-> expr])
    /\ UNCHANGED <<attr_input, compiled, projection_set, returned>>
    /\ UNCHANGED prjOthers

ProjectionInit ==
    /\ \/ /\ attr_input \in UNION {[1..n -> AttributeNames] : n \in 0..MaxAttrs}
          /\ projection_set = NoProjectionSet
       \/ /\ attr_input = <<>>
          /\ projection_set \in ProjectionSetsOf
    /\ compiled = None /\ projection_once = None /\ returned = None /\ query = None

ProjectionIdle ==
    /\ attr_input = <<>> /\ projection_set = NoProjectionSet
    /\ compiled = None /\ projection_once = None /\ returned = None /\ query = None

(***************************************************************************)
(* projection_expression() called from several threads                     *)
(* The blanket implementation keeps one process-wide                       *)
(* RwLock<BTreeMap<TypeId, Option<StaticProjection>>>: the static sits in  *)
(* a generic function but is not generic itself, so every P shares it.     *)
(* once_projection_expression! keeps one once_cell::race::OnceBox per      *)
(* expansion, that is per projections! set.  A leaked expression is        *)
(* [addr, expression, names]: addr tells the allocations apart.            *)
(* RwLock: a reader enters while no writer holds the lock, a writer while  *)
(* nobody holds it; the order in which waiters are served is left to the   *)
(* platform and is not constrained here.                                   *)
(***************************************************************************)
MaxLookups == 4

\* the threads of the process that call projection_expression()
Threads == {"t1", "t2"}

\* the projection sets the threads ask for
CacheSets ==
    {[kind |-> "blanket", types |-> <<"UserView">>],
     [kind |-> "blanket", types |-> <<"OrderView">>],
     [kind |-> "projections", types |-> <<"UserView">>],
     [kind |-> "projections", types |-> <<"UserView", "OrderView">>]}

OnceSets == {set \in CacheSets : set.kind = "projections"}

projection_expression_entry_always_locked(set) == "read"

\* which implementation of ProjectionSet::projection_expression a set has:
\* the blanket one starts at the read lock, the one projections! generates
\* at the load of PROJECTION_ONCE
projection_expression_entry(set) ==
    IF set.kind = "blanket" THEN "read" ELSE "get_or_init"

\* Projection::leak / String::leak: the expression lives at a fresh address
leak_at(expr, addr) ==
    IF expr = None THEN None
    ELSE Some([addr |-> addr,
               expression |-> Unwrap(expr).expression,
               names |-> Unwrap(expr).names])

\* what the closure handed to or_insert_with / get_or_init computes for a set
\* when it is the next one to allocate
compute_projection(set, addr) ==
    IF set.kind = "blanket"
    THEN leak_at(blanket_projection_expression(set.types[1]), addr)
    ELSE leak_at(once_projection_expression(set.types), addr)

\* the history of leaks after a closure returned value for set
Leaked(history, set, value) ==
    IF value = None THEN history ELSE Append(history, set)

RwLock_new == [writer |-> None, readers |-> {}]

\* RwLock::read returns without waiting
RwLock_read_available(lock) == lock.writer = None

\* RwLock::write returns without waiting
RwLock_write_available(lock) == lock.writer = None /\ lock.readers = {}

\* the threads holding the lock
RwLock_holders(lock) == lock.readers \cup Range(lock.writer)

or_insert_with_replaces(map, key, value) ==
    [k \in (DOMAIN map) \cup {key} |-> IF k = key THEN value ELSE map[k]]

\* BTreeMap::entry(key).or_insert_with(f): the map afterwards, value being
\* what f would return; an occupied entry is left as it is
or_insert_with(map, key, value) ==
    [k \in (DOMAIN map) \cup {key} |-> IF k \in DOMAIN map THEN map[k] ELSE value]

\* AtomicPtr::compare_exchange(null, new) inside OnceBox::get_or_init: the
\* pointer afterwards
compare_exchange(cell, new) == IF cell = None THEN Some(new) ELSE cell

\* a call returns value to thread t
Return(t, value, missed) ==
    /\ observed' = observed \cup
            {[thread |-> t, set |-> calling[t], value |-> value, missed |-> missed]}
    /\ pc' = [pc EXCEPT ![t] = "idle"]
    /\ calling' = [calling EXCEPT ![t] = NoProjectionSet]

\* thread t calls <set as ProjectionSet>::projection_expression()
CacheCall(t) ==
    /\ pc[t] = "idle"
    /\ lookups < MaxLookups
    /\ \E set \in CacheSets :
        /\ calling' = [calling EXCEPT ![t] = set]
        /\ pc' = [pc EXCEPT ![t] = projection_expression_entry(set)]
    /\ lookups' = lookups + 1
    /\ UNCHANGED <<boxed, rwlock, ENTITY_PROJECTION_EXPRESSION, PROJECTION_ONCE,
                   generated, observed, waited>>
    /\ UNCHANGED cacheOthers

\* ENTITY_PROJECTION_EXPRESSION.read().unwrap()
RwLockRead(t) ==
    /\ pc[t] = "read"
    /\ RwLock_read_available(rwlock)
    /\ rwlock' = [rwlock EXCEPT !.readers = @ \cup {t}]
    /\ pc' = [pc EXCEPT ![t] = "get"]
    /\ UNCHANGED <<calling, boxed, ENTITY_PROJECTION_EXPRESSION, PROJECTION_ONCE,
                   generated, observed, waited, lookups>>
    /\ UNCHANGED cacheOthers

\* projections.get(&TypeId::of::<P>()): a hit returns the value, a miss
\* goes on to the write lock; either way the read guard is dropped
MapGet(t) ==
    /\ pc[t] = "get"
    /\ rwlock' = [rwlock EXCEPT !.readers = @ \ {t}]
    /\ IF calling[t] \in DOMAIN ENTITY_PROJECTION_EXPRESSION
       THEN Return(t, ENTITY_PROJECTION_EXPRESSION[calling[t]], FALSE)
       ELSE /\ pc' = [pc EXCEPT ![t] = "write"]
            /\ UNCHANGED <<calling, observed>>
    /\ UNCHANGED <<boxed, ENTITY_PROJECTION_EXPRESSION, PROJECTION_ONCE,
                   generated, waited, lookups>>
    /\ UNCHANGED cacheOthers

\* ENTITY_PROJECTION_EXPRESSION.write().unwrap()
RwLockWrite(t) ==
    /\ pc[t] = "write"
    /\ RwLock_write_available(rwlock)
    /\ rwlock' = [rwlock EXCEPT !.writer = Some(t)]
    /\ pc' = [pc EXCEPT ![t] = "or_insert_with"]
    /\ UNCHANGED <<calling, boxed, ENTITY_PROJECTION_EXPRESSION, PROJECTION_ONCE,
                   generated, observed, waited, lookups>>
    /\ UNCHANGED cacheOthers

\* thread t finds the lock taken and waits for the threads that hold it
RwLockWait(t) ==
    /\ \/ pc[t] = "read" /\ ~RwLock_read_available(rwlock)
       \/ pc[t] = "write" /\ ~RwLock_write_available(rwlock)
    /\ waited' = waited \cup
            {[waiter |-> calling[t], holder |-> calling[h],
              computing |-> /\ pc[h] = "or_insert_with"
                            /\ calling[h] \notin DOMAIN ENTITY_PROJECTION_EXPRESSION] :
                h \in RwLock_holders(rwlock)}
    /\ waited' # waited
    /\ UNCHANGED <<pc, calling, boxed, rwlock, ENTITY_PROJECTION_EXPRESSION,
                   PROJECTION_ONCE, generated, observed, lookups>>
    /\ UNCHANGED cacheOthers

\* *projections.entry(TypeId::of::<P>()).or_insert_with(|| ...): the closure
\* runs when the entry is vacant; the write guard is dropped on return
OrInsertWith(t) ==
    /\ pc[t] = "or_insert_with"
    /\ LET key == calling[t]
           value == compute_projection(key, Len(generated) + 1)
           map == or_insert_with(ENTITY_PROJECTION_EXPRESSION, key, value)
       IN  /\ ENTITY_PROJECTION_EXPRESSION' = map
           /\ generated' = IF map[key] = value
                           THEN Leaked(generated, key, value) ELSE generated
           /\ Return(t, map[key], TRUE)
    /\ rwlock' = [rwlock EXCEPT !.writer = None]
    /\ UNCHANGED <<boxed, PROJECTION_ONCE, waited, lookups>>
    /\ UNCHANGED cacheOthers

\* OnceBox::get_or_init: the load of the pointer; a pointer that is not
\* null is dereferenced and the call returns
OnceBoxLoad(t) ==
    /\ pc[t] = "get_or_init"
    /\ IF PROJECTION_ONCE[calling[t]] # None
       THEN Return(t, Unwrap(PROJECTION_ONCE[calling[t]]), FALSE)
       ELSE /\ pc' = [pc EXCEPT ![t] = "init"]
            /\ UNCHANGED <<calling, observed>>
    /\ UNCHANGED <<boxed, rwlock, ENTITY_PROJECTION_EXPRESSION, PROJECTION_ONCE,
                   generated, waited, lookups>>
    /\ UNCHANGED cacheOthers

\* the closure of get_or_init: generate_projection_expression(PROJECTIONS),
\* boxed
OnceBoxInit(t) ==
    /\ pc[t] = "init"
    /\ LET value == compute_projection(calling[t], Len(generated) + 1)
       IN  /\ boxed' = [boxed EXCEPT ![t] = Some(value)]
           /\ generated' = Leaked(generated, calling[t], value)
    /\ pc' = [pc EXCEPT ![t] = "compare_exchange"]
    /\ UNCHANGED <<calling, rwlock, ENTITY_PROJECTION_EXPRESSION, PROJECTION_ONCE,
                   observed, waited, lookups>>
    /\ UNCHANGED cacheOthers

\* OnceBox::get_or_init: the box is installed when the pointer is still
\* null and dropped otherwise; the call returns what the pointer holds
OnceBoxCompareExchange(t) ==
    /\ pc[t] = "compare_exchange"
    /\ LET cell == compare_exchange(PROJECTION_ONCE[calling[t]], Unwrap(boxed[t]))
       IN  /\ PROJECTION_ONCE' = [PROJECTION_ONCE EXCEPT ![calling[t]] = cell]
           /\ Return(t, Unwrap(cell), TRUE)
    /\ boxed' = [boxed EXCEPT ![t] = None]
    /\ UNCHANGED <<rwlock, ENTITY_PROJECTION_EXPRESSION, generated, waited, lookups>>
    /\ UNCHANGED cacheOthers

CacheInit ==
    /\ pc = [t \in Threads |-> "idle"]
    /\ calling = [t \in Threads |-> NoProjectionSet]
    /\ boxed = [t \in Threads |-> None]
    /\ rwlock = RwLock_new
    /\ ENTITY_PROJECTION_EXPRESSION = EmptyMap
    /\ PROJECTION_ONCE = [set \in OnceSets |-> None]
    /\ generated = <<>>
    /\ observed = {}
    /\ waited = {}
    /\ lookups = 0

CacheIdle == CacheInit

CacheStep(t) ==
    \/ CacheCall(t)
    \/ RwLockRead(t) \/ MapGet(t) \/ RwLockWrite(t) \/ RwLockWait(t) \/ OrInsertWith(t)
    \/ OnceBoxLoad(t) \/ OnceBoxInit(t) \/ OnceBoxCompareExchange(t)

(***************************************************************************)
(* keys::FullKey::into_key and EntityExt::into_item                        *)
(* What a value hands to the serializer is the list of its                 *)
(* (attribute, value) entries in field order; #[serde(flatten)] splices    *)
(* the entries of a field into those of its parent.  A key is              *)
(* [hash, range].  The index keys of an entity are a sequence of slots     *)
(* [definition, key]: the unit type is the empty sequence, a single key a  *)
(* sequence of one slot, a tuple one slot per member.  The key of a slot   *)
(* is an Option: always Some for a slot declared K, Some or None for a     *)
(* slot declared Option<K>.                                                *)
(***************************************************************************)
\* the serializer the crate hands its values to: the entries are inserted
\* into the item in order, a later entry replacing an earlier one of the
\* same attribute
to_item(entries) == Collect(entries)

\* #[derive(Serialize)] of a key struct: hash under the attribute of
\* #[serde(rename = $pk)] ("PK" for lsi_key!), range under that of
\* #[serde(rename = $sk)]
Key_serialize(definition, key) ==
    <<<<definition.hash_key, key.hash>>, <<Unwrap(definition.range_key), key.range>>>>

\* a slip: a None index key is written out as null attributes
Slot_serialize_none_as_null(slot) ==
    IF slot.key = None
    THEN <<<<slot.definition.hash_key, "NULL">>,
           <<Unwrap(slot.definition.range_key), "NULL">>>>
    ELSE Key_serialize(slot.definition, Unwrap(slot.key))

\* a flattened member of the index keys: Option<K> serializes nothing for
\* None and K for Some
Slot_serialize(slot) ==
    IF slot.key = None THEN <<>>
    ELSE Key_serialize(slot.definition, Unwrap(slot.key))

\* IndexKeys::to_serialize: hidden::Empty for (), the key itself for a
\* single key, CompositeKn with every member flattened in order for a tuple
RECURSIVE to_serialize(_)
to_serialize(indexes) ==
    IF indexes = <<>> THEN <<>>
    ELSE Slot_serialize(Head(indexes)) \o to_serialize(Tail(indexes))

\* a slip: FullKey declares primary before indexes
FullKey_serialize_primary_first(self) ==
    Key_serialize(Primary_DEFINITION, self.primary) \o to_serialize(self.indexes)

\* #[derive(Serialize)] of FullKey: indexes (flattened, through
\* serialize_keys), then primary (flattened)
FullKey_serialize(self) ==
    to_serialize(self.indexes) \o Key_serialize(Primary_DEFINITION, self.primary)

FullKey_into_key(self) == to_item(FullKey_serialize(self))

\* #[derive(Serialize)] of FullEntity: entity_type, then keys (flattened),
\* then entity (flattened)
FullEntity_serialize(full_entity) ==
    <<<<"entity_type", full_entity.entity_type>>>>
    \o FullKey_serialize(full_entity.keys)
    \o full_entity.entity

\* EntityExt::into_item
into_item(self) ==
    LET full_entity == [entity_type |-> self.ENTITY_TYPE,
                        keys |-> self.full_key,
                        entity |-> self.data]
    IN  to_item(FullEntity_serialize(full_entity))

MaxIndexes == 2

HashValues == {"h1", "h2"}

RangeValues == {"r1", "r2"}

IndexDefinitions == {Gsi1_DEFINITION, Gsi5_DEFINITION, Lsi1_DEFINITION, Lsi3_DEFINITION}

IndexSlots ==
    {[definition |-> d, key |-> k] :
        d \in IndexDefinitions,
        k \in {None} \cup {Some([hash |-> h, range |-> r]) : h \in HashValues, r \in RangeValues}}

\* the index keys an entity type can declare: up to MaxIndexes slots over
\* different indexes
IndexKeysOf ==
    {ix \in UNION {[1..n -> IndexSlots] : n \in 0..MaxIndexes} :
        \A i, j \in DOMAIN ix : ix[i].definition = ix[j].definition => i = j}

\* what the full_key() of an entity can return
FullKeys ==
    {[primary |-> [hash |-> h, range |-> "r1"], indexes |-> ix] :
        h \in HashValues, ix \in IndexKeysOf}

\* the entries of an entity's own fields
EntityData ==
    {<<>>,
     <<<<"id", "v1">>>>,
     <<<<"id", "v1">>, <<"name", "v2">>>>}

Entities ==
    {[ENTITY_TYPE |-> t, full_key |-> fk, data |-> d] :
        t \in {"test_ent", "message"}, fk \in FullKeys, d \in EntityData}

NoEntity ==
    [ENTITY_TYPE |-> "",
     full_key |-> [primary |-> [hash |-> "", range |-> ""], indexes |-> <<>>],
     data |-> <<>>]

\* entity.full_key().into_key()
FullKeyIntoKey ==
    /\ entity_in # NoEntity
    /\ serialized = None
    /\ serialized' = Some(FullKey_into_key(entity_in.full_key))
    /\ UNCHANGED <<entity_in, wire_item>>
    /\ UNCHANGED keyOthers

\* entity.into_item()
EntityIntoItem ==
    /\ entity_in # NoEntity
    /\ wire_item = None
    /\ wire_item' = Some(into_item(entity_in))
    /\ UNCHANGED <<entity_in, serialized>>
    /\ UNCHANGED keyOthers

KeysInit ==
    /\ entity_in \in Entities
    /\ serialized = None /\ wire_item = None

KeysIdle ==
    /\ entity_in = NoEntity
    /\ serialized = None /\ wire_item = None

(***************************************************************************)
(* ProjectionSet::try_from_item and Aggregate::reduce                      *)
(* An item is [entity_type, payload]: entity_type is the Option of the     *)
(* discriminator attribute's AttributeValue (<<"S", name>> or <<"N", n>>), *)
(* payload names the projection type the rest of the item deserializes     *)
(* into ("junk": none).                                                    *)
(***************************************************************************)
Ok == <<"Ok">>

Err(error) == <<"Err", error>>

IsErr(r) == r[1] = "Err"

MissingEntityTypeError == [kind |-> "MissingEntityTypeError", entity_type |-> ""]

ItemDeserializationError(entity_type) ==
    [kind |-> "ItemDeserializationError", entity_type |-> entity_type]

\* ProjectionExt::from_item: the codec decodes the item into P or fails, and
\* the failure is wrapped with P's entity type
from_item(P, item) ==
    IF item.payload = P THEN <<"Ok", [variant |-> P, payload |-> item.payload]>>
    ELSE Err(ItemDeserializationError(P))

\* a slip: an item without a usable discriminator is given a type that
\* names no variant
get_entity_type_lenient(item) ==
    IF item.entity_type = None THEN <<"Ok", "">>
    ELSE IF Unwrap(item.entity_type)[1] # "S" THEN <<"Ok", "">>
    ELSE <<"Ok", Unwrap(item.entity_type)[2]>>

\* __private::get_entity_type
get_entity_type(item) ==
    IF item.entity_type = None THEN Err(MissingEntityTypeError)
    ELSE IF Unwrap(item.entity_type)[1] # "S" THEN Err(MissingEntityTypeError)
    ELSE <<"Ok", Unwrap(item.entity_type)[2]>>

\* a slip: a variant that fails to decode hands the item to the next one
RECURSIVE projections_match_falls_through(_, _, _)
projections_match_falls_through(variants, entity_type, item) ==
    IF variants = <<>> THEN <<"Ok", None>>
    ELSE LET parsed == from_item(Head(variants), item)
         IN  IF entity_type = Head(variants) /\ ~IsErr(parsed)
             THEN <<"Ok", Some(parsed[2])>>
             ELSE IF item.payload \in Range(Tail(variants))
                  THEN <<"Ok", Some([variant |-> item.payload, payload |-> item.payload])>>
                  ELSE IF entity_type = Head(variants) THEN parsed
                       ELSE projections_match_falls_through(Tail(variants), entity_type, item)

\* the if / else-if chain projections! generates, over the variants in
\* declared order; Ok(Some(parsed)), Ok(None) or Err
RECURSIVE projections_match(_, _, _)
projections_match(variants, entity_type, item) ==
    IF variants = <<>> THEN <<"Ok", None>>
    ELSE IF entity_type = Head(variants)
         THEN LET parsed == from_item(Head(variants), item)
              IN  IF IsErr(parsed) THEN parsed ELSE <<"Ok", Some(parsed[2])>>
         ELSE projections_match(Tail(variants), entity_type, item)

\* try_from_item of a set generated by projections!
projections_try_from_item(variants, item) ==
    LET entity_type == get_entity_type(item)
    IN  IF IsErr(entity_type) THEN entity_type
        ELSE projections_match(variants, entity_type[2], item)

\* try_from_item of the blanket impl<P: Projection> ProjectionSet for P
blanket_try_from_item(P, item) ==
    IF item.entity_type # None /\ Unwrap(item.entity_type)[1] = "S"
    THEN IF Unwrap(item.entity_type)[2] = P
         THEN LET parsed == from_item(P, item)
              IN  IF IsErr(parsed) THEN parsed ELSE <<"Ok", Some(parsed[2])>>
         ELSE <<"Ok", None>>
    ELSE Err(MissingEntityTypeError)

try_from_item(set, item) ==
    IF set.kind = "blanket" THEN blanket_try_from_item(set.variants[1], item)
    ELSE projections_try_from_item(set.variants, item)

\* a slip: the item is pushed before it is known to decode
merge_pushes_first(set, self, item) ==
    LET entity == try_from_item(set, item)
    IN  IF IsErr(entity)
        THEN [aggregate |-> Append(self, [variant |-> "", payload |-> item.payload]),
              result |-> entity]
        ELSE IF entity[2] = None THEN [aggregate |-> self, result |-> Ok]
             ELSE [aggregate |-> Append(self, Unwrap(entity[2])), result |-> Ok]

\* a slip: an item of unknown type is reported as an error
merge_unknown_is_error(set, self, item) ==
    LET entity == try_from_item(set, item)
    IN  IF IsErr(entity) THEN [aggregate |-> self, result |-> entity]
        ELSE IF entity[2] = None
             THEN [aggregate |-> self, result |-> Err(MissingEntityTypeError)]
             ELSE [aggregate |-> Append(self, Unwrap(entity[2])), result |-> Ok]

\* Aggregate::merge written with read_projection!, as Vec<P> does: an Err is
\* returned, Ok(None) makes merge return Ok(()) at once, and an entity is
\* pushed
merge(set, self, item) ==
    LET entity == try_from_item(set, item)
    IN  IF IsErr(entity) THEN [aggregate |-> self, result |-> entity]
        ELSE IF entity[2] = None THEN [aggregate |-> self, result |-> Ok]
             ELSE [aggregate |-> Append(self, Unwrap(entity[2])), result |-> Ok]

MaxItems == 3

\* the items a page of the model can hold
UserItem == [entity_type |-> Some(<<"S", "user">>), payload |-> "user"]

OrderItem == [entity_type |-> Some(<<"S", "order">>), payload |-> "order"]

UnknownItem == [entity_type |-> Some(<<"S", "ghost">>), payload |-> "junk"]

UndecodableItem == [entity_type |-> Some(<<"S", "user">>), payload |-> "junk"]

UntypedItem == [entity_type |-> None, payload |-> "user"]

MalformedItem == [entity_type |-> Some(<<"N", 1>>), payload |-> "user"]

\* an item marked "user" whose other attributes are those of an order
MisfiledItem == [entity_type |-> Some(<<"S", "user">>), payload |-> "order"]

ItemUniverse ==
    {UserItem, OrderItem, UnknownItem, UndecodableItem, MisfiledItem, UntypedItem,
     MalformedItem}

\* Vec<P> with the blanket set of one projection, and an aggregate over a
\* set generated by projections!
ProjectionSets ==
    {[kind |-> "blanket", variants |-> <<"user">>],
     [kind |-> "projections", variants |-> <<"user", "order">>]}

\* a reduce whose loop ends, with success, at the first item merge ignores
ReduceMerge_stops_at_unknown ==
    /\ result = None /\ items # <<>>
    /\ LET m == merge(projections, aggregate, Head(items))
           entity == try_from_item(projections, Head(items))
       IN  /\ aggregate' = m.aggregate
           /\ result' = IF IsErr(m.result) THEN Some(m.result)
                        ELSE IF entity[2] = None THEN Some(Ok)
                        ELSE None
    /\ merged' = Append(merged, Head(items))
    /\ items' = Tail(items)
    /\ UNCHANGED <<projections, page>>
    /\ UNCHANGED reduceOthers

\* one iteration of `for item in items { self.merge(item)?; }`
ReduceMerge ==
    /\ result = None /\ items # <<>>
    /\ LET m == merge(projections, aggregate, Head(items))
       IN  /\ aggregate' = m.aggregate
           /\ result' = IF IsErr(m.result) THEN Some(m.result) ELSE None
    /\ merged' = Append(merged, Head(items))
    /\ items' = Tail(items)
    /\ UNCHANGED <<projections, page>>
    /\ UNCHANGED reduceOthers

\* the iterator is exhausted: reduce returns Ok(())
ReduceReturn ==
    /\ result = None /\ items = <<>>
    /\ result' = Some(Ok)
    /\ UNCHANGED <<projections, page, items, aggregate, merged>>
    /\ UNCHANGED reduceOthers

ReduceInit ==
    /\ projections \in ProjectionSets
    /\ page \in UNION {[1..n -> ItemUniverse] : n \in 0..MaxItems}
    /\ items = page
    /\ aggregate = <<>> /\ merged = <<>> /\ result = None

ReduceIdle ==
    /\ projections = None /\ page = <<>> /\ items = <<>>
    /\ aggregate = <<>> /\ merged = <<>> /\ result = None


(***************************************************************************)
(* EntityExt::put / create / replace, TransactWrite and the store          *)
(* A ConditionalPut is [item, condition].  The store is the table the      *)
(* client talks to: a map from the primary key of an item to the item.  It *)
(* evaluates the condition of a write against the item its key holds and   *)
(* applies a transaction only when every condition of it holds.            *)
(***************************************************************************)
ATTRIBUTE_NOT_EXISTS_PK == <<"a", "t", "t", "r", "i", "b", "u", "t", "e", "_", "n", "o", "t", "_", "e", "x", "i", "s", "t", "s", "(", "#", "P", "K", ")">>

ATTRIBUTE_EXISTS_PK == <<"a", "t", "t", "r", "i", "b", "u", "t", "e", "_", "e", "x", "i", "s", "t", "s", "(", "#", "P", "K", ")">>

PLACEHOLDER_PK == <<"#", "P", "K">>

FN_ATTRIBUTE_NOT_EXISTS == <<"a", "t", "t", "r", "i", "b", "u", "t", "e", "_", "n", "o", "t", "_", "e", "x", "i", "s", "t", "s">>

FN_ATTRIBUTE_EXISTS == <<"a", "t", "t", "r", "i", "b", "u", "t", "e", "_", "e", "x", "i", "s", "t", "s">>

\* Put::new
Put_new(item) == [item |-> item, condition |-> None]

\* Put::condition
Put_condition(self, cnd) == [item |-> self.item, condition |-> Some(cnd)]

\* EntityExt::put
EntityExt_put(self) == Put_new(into_item(self))

EntityExt_create_without_condition(self) == Put_new(into_item(self))

\* EntityExt::create
EntityExt_create(self) ==
    LET cnd == Condition_name(Condition_new(ATTRIBUTE_NOT_EXISTS_PK),
                              PLACEHOLDER_PK, Primary_DEFINITION.hash_key)
    IN  Put_condition(EntityExt_put(self), cnd)

EntityExt_replace_on_range_key(self) ==
    LET cnd == Condition_name(Condition_new(ATTRIBUTE_EXISTS_PK),
                              PLACEHOLDER_PK, Unwrap(Primary_DEFINITION.range_key))
    IN  Put_condition(EntityExt_put(self), cnd)

\* EntityExt::replace
EntityExt_replace(self) ==
    LET cnd == Condition_name(Condition_new(ATTRIBUTE_EXISTS_PK),
                              PLACEHOLDER_PK, Primary_DEFINITION.hash_key)
    IN  Put_condition(EntityExt_put(self), cnd)

\* the three ways an entity becomes a put
Prepare(via, self) ==
    CASE via = "put" -> EntityExt_put(self)
      [] via = "create" -> EntityExt_create(self)
      [] via = "replace" -> EntityExt_replace(self)

\* ConditionalPut::execute: the PutItem request PutOne::execute sends
ConditionalPut_execute(self) ==
    [item |-> Some(self.item), expressions |-> PutOne_execute(self.condition).request]

\* TransactWriteItem::into_batch of a put: PutTransact::build
TransactWriteItem_into_batch(self) ==
    [item |-> IF self.item # EmptyMap THEN Some(self.item) ELSE None,
     expressions |-> PutTransact_build(self.condition)]

TransactWrite_operation_prepends(self, item) == <<item>> \o self

\* TransactWrite::operation: self.operations.push(op.into())
TransactWrite_operation(self, item) == Append(self, item)

\* TransactWrite::execute: the transact items, in the order of the operations
TransactWrite_execute(self) ==
    [i \in DOMAIN self |-> TransactWriteItem_into_batch(self[i])]

\* the position of the first c in s
IndexOf(s, c) ==
    CHOOSE i \in DOMAIN s : s[i] = c /\ \A j \in 1..(i - 1) : s[j] # c

\* function(operand): the function of a condition expression
ConditionFunction(expression) == SubSeq(expression, 1, IndexOf(expression, "(") - 1)

\* function(operand): the operand of a condition expression
ConditionOperand(expression) ==
    SubSeq(expression, IndexOf(expression, "(") + 1, Len(expression) - 1)

\* the attribute a condition tests: its operand, resolved through the
\* expression attribute names
ConditionAttribute(expression, names) == Unwrap(names)[ConditionOperand(expression)]

\* the store evaluates the condition of a write against the item its key
\* holds (existing is None when the key holds no item)
ConditionHolds(write, existing) ==
    IF write.expressions.condition_expression = None THEN TRUE
    ELSE LET expression == Unwrap(write.expressions.condition_expression)
             attribute == ConditionAttribute(expression,
                                             write.expressions.expression_attribute_names)
             exists == IsSome(existing) /\ attribute \in DOMAIN Unwrap(existing)
         IN  IF ConditionFunction(expression) = FN_ATTRIBUTE_EXISTS THEN exists
             ELSE IF ConditionFunction(expression) = FN_ATTRIBUTE_NOT_EXISTS THEN ~exists
             ELSE FALSE

\* the primary key of an item of the table
ItemKey(item) ==
    [hash |-> item[Primary_DEFINITION.hash_key],
     range |-> item[Unwrap(Primary_DEFINITION.range_key)]]

\* the item the key of a write holds
Existing(tbl, write) ==
    IF ItemKey(Unwrap(write.item)) \in DOMAIN tbl
    THEN Some(tbl[ItemKey(Unwrap(write.item))]) ELSE None

\* the table after a write was applied
Stored(tbl, write) ==
    [k \in (DOMAIN tbl) \cup {ItemKey(Unwrap(write.item))} |->
        IF k = ItemKey(Unwrap(write.item)) THEN Unwrap(write.item) ELSE tbl[k]]

RECURSIVE StoredAll(_, _)
StoredAll(tbl, writes) ==
    IF writes = <<>> THEN tbl
    ELSE StoredAll(Stored(tbl, Head(writes)), Tail(writes))

\* an SdkError::ServiceError of the operation `inner`
ServiceError(inner, variant, cancellation_reasons) ==
    [inner |-> inner, sdk |-> "ServiceError", variant |-> variant,
     cancellation_reasons |-> cancellation_reasons]

\* the store's PutItem: [table, result]
Store_put_item(tbl, write) ==
    IF ConditionHolds(write, Existing(tbl, write))
    THEN [table |-> Stored(tbl, write), result |-> Ok]
    ELSE [table |-> tbl,
          result |-> Err(ServiceError("PutItem", "ConditionalCheckFailedException", None))]

\* the store's TransactWriteItems: [table, result]; a cancelled transaction
\* reports one reason per item, in the order of the items
Store_transact_write_items(tbl, writes) ==
    IF \A i \in DOMAIN writes : ConditionHolds(writes[i], Existing(tbl, writes[i]))
    THEN [table |-> StoredAll(tbl, writes), result |-> Ok]
    ELSE [table |-> tbl,
          result |-> Err(ServiceError(
              "TransactWriteItems", "TransactionCanceledException",
              Some([i \in DOMAIN writes |->
                      [code |-> IF ConditionHolds(writes[i], Existing(tbl, writes[i]))
                                THEN Some("None")
                                ELSE Some("ConditionalCheckFailed")]])))]

\* Error::is_conditional_check_failed_exception
is_conditional_check_failed_exception(error) ==
    IF error.inner \in {"PutItem", "DeleteItem", "UpdateItem"} /\ error.sdk = "ServiceError"
    THEN error.variant = "ConditionalCheckFailedException"
    ELSE IF error.inner = "TransactWriteItems" /\ error.sdk = "ServiceError"
    THEN IF error.variant = "TransactionCanceledException"
         THEN LET reasons == IF IsSome(error.cancellation_reasons)
                             THEN Unwrap(error.cancellation_reasons) ELSE <<>>
              IN  \E i \in DOMAIN reasons :
                      reasons[i].code = Some("ConditionalCheckFailed")
         ELSE FALSE
    ELSE FALSE

MaxOperations == 2

\* the entities written to the store
StoreEntities ==
    {e \in Entities :
        /\ e.ENTITY_TYPE = "test_ent"
        /\ e.full_key.indexes = <<>>
        /\ Len(e.data) < 2}

Vias == {"put", "create", "replace"}

NoPrepared == [via |-> "", entity |-> NoEntity, put |-> Put_new(EmptyMap)]

NoOutcome ==
    [call |-> "", prepared |-> <<>>, before |-> EmptyMap, result |-> Ok]

\* entity.put() / entity.create() / entity.replace(); the outcome of the
\* call before is no longer looked at
EntityExtPrepare ==
    /\ prepared = NoPrepared
    /\ \E via \in Vias, e \in StoreEntities :
        prepared' = [via |-> via, entity |-> e, put |-> Prepare(via, e)]
    /\ outcome' = NoOutcome
    /\ UNCHANGED <<table, operations, attached, created>>
    /\ UNCHANGED storeOthers

\* the keys successful create() calls stored an item under
Created(log, call) ==
    IF IsErr(call.result) THEN log
    ELSE log \cup {ItemKey(call.prepared[i].put.item) :
                     i \in {j \in DOMAIN call.prepared : call.prepared[j].via = "create"}}

\* ConditionalPut::execute against the store
ConditionalPutExecute ==
    /\ prepared # NoPrepared /\ operations = <<>>
    /\ LET answer == Store_put_item(table, ConditionalPut_execute(prepared.put))
           call == [call |-> "PutItem", prepared |-> <<prepared>>,
                    before |-> table, result |-> answer.result]
       IN  /\ table' = answer.table
           /\ outcome' = call
           /\ created' = Created(created, call)
    /\ prepared' = NoPrepared
    /\ UNCHANGED <<operations, attached>>
    /\ UNCHANGED storeOthers

\* TransactWrite::operation with the prepared put; the store takes one
\* operation per item in a transaction
TransactWriteOperation ==
    /\ prepared # NoPrepared
    /\ Len(operations) < MaxOperations
    /\ \A i \in DOMAIN operations :
        ItemKey(operations[i].item) # ItemKey(prepared.put.item)
    /\ operations' = TransactWrite_operation(operations, prepared.put)
    /\ attached' = Append(attached, prepared)
    /\ prepared' = NoPrepared
    /\ UNCHANGED <<table, outcome, created>>
    /\ UNCHANGED storeOthers

\* TransactWrite::execute against the store
TransactWriteExecute ==
    /\ prepared = NoPrepared /\ operations # <<>>
    /\ LET answer == Store_transact_write_items(table, TransactWrite_execute(operations))
           call == [call |-> "TransactWriteItems", prepared |-> attached,
                    before |-> table, result |-> answer.result]
       IN  /\ table' = answer.table
           /\ outcome' = call
           /\ created' = Created(created, call)
    /\ operations' = <<>>
    /\ attached' = <<>>
    /\ UNCHANGED prepared
    /\ UNCHANGED storeOthers

StoreInit ==
    /\ table = EmptyMap
    /\ prepared = NoPrepared
    /\ operations = <<>> /\ attached = <<>>
    /\ outcome = NoOutcome
    /\ created = {}

StoreIdle == StoreInit

(***************************************************************************)
(* Query::limit / set_limit and Scan::limit / set_limit                    *)
(* A u32 is [hi, lo], its two 16-bit halves, so that every u32 is at hand  *)
(* without leaving the integers the model checker computes with; an i32    *)
(* is an integer.  A read builder is [operation, limit], limit an          *)
(* Option<i32>.                                                            *)
(***************************************************************************)
HALF == 65536

I32_MAX == 2147483647

u32(hi, lo) == [hi |-> hi, lo |-> lo]

\* `x as u32` of a non-negative i32
as_u32(x) == u32(x \div HALF, x % HALF)

\* `a > b` on u32
u32_gt(a, b) == a.hi > b.hi \/ (a.hi = b.hi /\ a.lo > b.lo)

\* `n as i32`: the same 32 bits read in two's complement
as_i32(n) ==
    IF n.hi >= HALF \div 2 THEN (n.hi - HALF) * HALF + n.lo
    ELSE n.hi * HALF + n.lo

\* Query::new / Scan::new: no limit
Read_new(operation) == [operation |-> operation, limit |-> None]

\* a slip: the limit is cast without the range test
Query_limit_casts_always(self, n) == [self EXCEPT !.limit = Some(as_i32(n))]

\* Query::limit
Query_limit(self, n) ==
    IF u32_gt(n, as_u32(I32_MAX)) THEN [self EXCEPT !.limit = None]
    ELSE [self EXCEPT !.limit = Some(as_i32(n))]

\* Query::set_limit
Query_set_limit(self, n) ==
    IF IsSome(n) THEN Query_limit(self, Unwrap(n))
    ELSE [self EXCEPT !.limit = None]

\* Scan::limit
Scan_limit(self, n) ==
    IF u32_gt(n, as_u32(I32_MAX)) THEN [self EXCEPT !.limit = None]
    ELSE [self EXCEPT !.limit = Some(as_i32(n))]

\* Scan::set_limit
Scan_set_limit(self, n) ==
    IF IsSome(n) THEN Scan_limit(self, Unwrap(n))
    ELSE [self EXCEPT !.limit = None]

\* Query::execute / Scan::execute, the limit of the request:
\* .set_limit(self.limit)
Read_execute_limit(self) == [operation |-> self.operation, limit |-> self.limit]

MaxLimitCalls == 3

\* the limits a caller asks for: small ones, and the ones around i32::MAX
\* and u32::MAX
LimitInputs ==
    {u32(0, 0), u32(0, 1), u32(1, 0), u32(32767, 65534), u32(32767, 65535),
     u32(32768, 0), u32(32768, 1), u32(65535, 65535)}

NoReadBuilder == [operation |-> "", limit |-> None]

QueryLimit ==
    /\ read_builder.operation = "Query" /\ read_request = None
    /\ Len(limit_calls) < MaxLimitCalls
    /\ \E n \in LimitInputs :
        /\ read_builder' = Query_limit(read_builder, n)
        /\ limit_calls' = Append(limit_calls, [call |-> "limit", arg |-> Some(n)])
    /\ UNCHANGED read_request
    /\ UNCHANGED limitOthers

QuerySetLimit ==
    /\ read_builder.operation = "Query" /\ read_request = None
    /\ Len(limit_calls) < MaxLimitCalls
    /\ \E n \in {None} \cup {Some(x) : x \in LimitInputs} :
        /\ read_builder' = Query_set_limit(read_builder, n)
        /\ limit_calls' = Append(limit_calls, [call |-> "set_limit", arg |-> n])
    /\ UNCHANGED read_request
    /\ UNCHANGED limitOthers

ScanLimit ==
    /\ read_builder.operation = "Scan" /\ read_request = None
    /\ Len(limit_calls) < MaxLimitCalls
    /\ \E n \in LimitInputs :
        /\ read_builder' = Scan_limit(read_builder, n)
        /\ limit_calls' = Append(limit_calls, [call |-> "limit", arg |-> Some(n)])
    /\ UNCHANGED read_request
    /\ UNCHANGED limitOthers

ScanSetLimit ==
    /\ read_builder.operation = "Scan" /\ read_request = None
    /\ Len(limit_calls) < MaxLimitCalls
    /\ \E n \in {None} \cup {Some(x) : x \in LimitInputs} :
        /\ read_builder' = Scan_set_limit(read_builder, n)
        /\ limit_calls' = Append(limit_calls, [call |-> "set_limit", arg |-> n])
    /\ UNCHANGED read_request
    /\ UNCHANGED limitOthers

\* Query::execute / Scan::execute consume the builder
ReadExecuteLimit ==
    /\ read_builder # NoReadBuilder /\ read_request = None
    /\ read_request' = Some(Read_execute_limit(read_builder))
    /\ UNCHANGED <<read_builder, limit_calls>>
    /\ UNCHANGED limitOthers

LimitInit ==
    /\ read_builder \in {Read_new("Query"), Read_new("Scan")}
    /\ limit_calls = <<>>
    /\ read_request = None

LimitIdle ==
    /\ read_builder = NoReadBuilder
    /\ limit_calls = <<>>
    /\ read_request = None

(***************************************************************************)
(* EntityExt::update / delete / condition_check                            *)
(* The operation is [key] (model::Update, model::Delete) or                *)
(* [key, condition] (model::ConditionCheck).  The request is               *)
(* [operation, key, expressions].  The table evaluates an update           *)
(* expression of one clause, "SET path = value" or "REMOVE path", against  *)
(* the item the key holds, creating the item when the key holds none.      *)
(***************************************************************************)
\* Entity::primary_key of the entity type at hand: both halves of the key
\* are derived from the input
Entity_primary_key(input) == [hash |-> input, range |-> input]

\* a slip: the key is also written out under the attributes of an index
PrimaryKey_into_key_with_index(self) ==
    to_item(Key_serialize(Primary_DEFINITION, self) \o Key_serialize(Gsi1_DEFINITION, self))

\* PrimaryKey::into_key
PrimaryKey_into_key(self) == to_item(Key_serialize(Primary_DEFINITION, self))

\* EntityExt::update: Update::new(Self::primary_key(key).into_key())
EntityExt_update(input) == [key |-> PrimaryKey_into_key(Entity_primary_key(input))]

\* EntityExt::delete: Delete::new(Self::primary_key(key).into_key())
EntityExt_delete(input) == [key |-> PrimaryKey_into_key(Entity_primary_key(input))]

\* EntityExt::condition_check:
\* ConditionCheck::new(Self::primary_key(key).into_key(), condition)
EntityExt_condition_check(input, cnd) ==
    [key |-> PrimaryKey_into_key(Entity_primary_key(input)), condition |-> cnd]

\* Update::expression(update).execute(): UpdateOne::execute with no
\* condition, .set_key(Some(self.inner.key))
UpdateItem_request(self, upd) ==
    [operation |-> "UpdateItem", key |-> Some(self.key),
     expressions |-> UpdateOne_execute(upd, None).request]

\* Delete::execute(): DeleteOne::execute with no condition,
\* .set_key(Some(self.inner.key))
DeleteItem_request(self) ==
    [operation |-> "DeleteItem", key |-> Some(self.key),
     expressions |-> DeleteOne_execute(None).request]

\* ConditionCheck::transact().build()
ConditionCheckTransact_build(self) ==
    LET is_empty == self.condition.values = <<>> /\ self.condition.sensitive_values = <<>>
        chain == self.condition.values \o self.condition.sensitive_values
    IN  [operation |-> "ConditionCheck",
         key |-> IF self.key = EmptyMap THEN None ELSE Some(self.key),
         expressions |->
            [NoRequest EXCEPT
                !.operation = "ConditionCheck",
                !.condition_expression = Some(self.condition.expression),
                !.expression_attribute_names =
                    IF self.condition.names # <<>>
                    THEN Some(Collect(self.condition.names)) ELSE None,
                !.expression_attribute_values =
                    IF ~is_empty THEN Some(Collect(chain)) ELSE None]]

\* --- the table
\* "SET path = value" / "REMOVE path": the action of an update expression
UpdateAction(expression) == SubSeq(expression, 1, IndexOf(expression, " ") - 1)

\* the path of the clause, a placeholder
UpdatePath(expression) ==
    IF "=" \in Range(expression)
    THEN SubSeq(expression, IndexOf(expression, " ") + 1, IndexOf(expression, "=") - 2)
    ELSE SubSeq(expression, IndexOf(expression, " ") + 1, Len(expression))

\* the value of a SET clause, a placeholder
UpdateOperand(expression) ==
    SubSeq(expression, IndexOf(expression, "=") + 2, Len(expression))

\* the attribute an update request names: the path, resolved through the
\* expression attribute names
UpdatedAttribute(expressions) ==
    Unwrap(expressions.expression_attribute_names)[
        UpdatePath(Unwrap(expressions.update_expression))]

\* the item after the update expression was applied to it
Updated(item, expressions) ==
    LET expression == Unwrap(expressions.update_expression)
        attribute == UpdatedAttribute(expressions)
    IN  IF UpdateAction(expression) = <<"S", "E", "T">>
        THEN [a \in (DOMAIN item) \cup {attribute} |->
                IF a = attribute
                THEN Unwrap(expressions.expression_attribute_values)[UpdateOperand(expression)]
                ELSE item[a]]
        ELSE [a \in (DOMAIN item) \ {attribute} |-> item[a]]

\* the table's UpdateItem: the item the key holds, or else an item of the
\* key alone, is updated in place
Store_update_item(tbl, req) ==
    LET k == ItemKey(Unwrap(req.key))
        item == IF k \in DOMAIN tbl THEN tbl[k] ELSE Unwrap(req.key)
    IN  [j \in (DOMAIN tbl) \cup {k} |->
            IF j = k THEN Updated(item, req.expressions) ELSE tbl[j]]

\* the table's DeleteItem
Store_delete_item(tbl, req) ==
    [j \in (DOMAIN tbl) \ {ItemKey(Unwrap(req.key))} |-> tbl[j]]

MaxKeyedOps == 2

KeyInputs == {"k1", "k2"}

\* the entities the table holds at first: with no index key, one, or an
\* optional one left out
KeyedEntities ==
    {[ENTITY_TYPE |-> "test_ent",
      full_key |-> [primary |-> Entity_primary_key(i), indexes |-> ix],
      data |-> d] :
        i \in KeyInputs,
        ix \in {x \in IndexKeysOf : Len(x) <= 1},
        d \in {<<<<"id", "v1">>>>, <<<<"id", "v1">>, <<"name", "v2">>>>}}

SET_A == <<"S", "E", "T", " ", "#", "a", " ", "=", " ", ":", "a">>

REMOVE_A == <<"R", "E", "M", "O", "V", "E", " ", "#", "a">>

\* the attributes a caller updates: one of the entity's own, one of an
\* index, one the item does not have yet
UpdatedAttributes == {"name", "GSI1PK", "views"}

\* the update expressions a caller writes
UpdateInputs ==
    {Update_value(Update_name(Update_new(SET_A), <<"#", "a">>, attr), <<":", "a">>, "v9") :
        attr \in UpdatedAttributes}
    \cup {Update_name(Update_new(REMOVE_A), <<"#", "a">>, attr) : attr \in UpdatedAttributes}

NoKeyed == [via |-> "", input |-> "", op |-> [key |-> EmptyMap], update |-> None]

\* Entity::update(input).expression(update)
EntityExtUpdate ==
    /\ keyed_count < MaxKeyedOps
    /\ keyed = NoKeyed \/ keyed_request # None
    /\ \E input \in KeyInputs, upd \in UpdateInputs :
        keyed' = [via |-> "update", input |-> input,
                  op |-> EntityExt_update(input), update |-> Some(upd)]
    /\ keyed_request' = None
    /\ keyed_count' = keyed_count + 1
    /\ UNCHANGED <<rows, rows_before>>
    /\ UNCHANGED keyedOthers

\* Entity::delete(input)
EntityExtDelete ==
    /\ keyed_count < MaxKeyedOps
    /\ keyed = NoKeyed \/ keyed_request # None
    /\ \E input \in KeyInputs :
        keyed' = [via |-> "delete", input |-> input,
                  op |-> EntityExt_delete(input), update |-> None]
    /\ keyed_request' = None
    /\ keyed_count' = keyed_count + 1
    /\ UNCHANGED <<rows, rows_before>>
    /\ UNCHANGED keyedOthers

\* Entity::condition_check(input, condition)
EntityExtConditionCheck ==
    /\ keyed_count < MaxKeyedOps
    /\ keyed = NoKeyed \/ keyed_request # None
    /\ \E input \in KeyInputs :
        keyed' = [via |-> "condition_check", input |-> input,
                  op |-> EntityExt_condition_check(
                            input,
                            Condition_name(Condition_new(ATTRIBUTE_EXISTS_PK),
                                           PLACEHOLDER_PK, "PK")),
                  update |-> None]
    /\ keyed_request' = None
    /\ keyed_count' = keyed_count + 1
    /\ UNCHANGED <<rows, rows_before>>
    /\ UNCHANGED keyedOthers

\* UpdateWithExpr::execute, and the table applying the request
UpdateWithExprExecute ==
    /\ keyed.via = "update" /\ keyed_request = None
    /\ LET req == UpdateItem_request(keyed.op, Unwrap(keyed.update))
       IN  /\ keyed_request' = Some(req)
           /\ rows' = Store_update_item(rows, req)
    /\ rows_before' = rows
    /\ UNCHANGED <<keyed, keyed_count>>
    /\ UNCHANGED keyedOthers

\* Delete::execute, and the table applying the request
DeleteExecute ==
    /\ keyed.via = "delete" /\ keyed_request = None
    /\ LET req == DeleteItem_request(keyed.op)
       IN  /\ keyed_request' = Some(req)
           /\ rows' = Store_delete_item(rows, req)
    /\ rows_before' = rows
    /\ UNCHANGED <<keyed, keyed_count>>
    /\ UNCHANGED keyedOthers

\* ConditionCheck::transact().build(): the item of a transaction
ConditionCheckBuild ==
    /\ keyed.via = "condition_check" /\ keyed_request = None
    /\ keyed_request' = Some(ConditionCheckTransact_build(keyed.op))
    /\ rows_before' = rows
    /\ UNCHANGED <<rows, keyed, keyed_count>>
    /\ UNCHANGED keyedOthers

KeyedInit ==
    /\ \E e \in KeyedEntities :
        rows = [k \in {e.full_key.primary} |-> into_item(e)]
    /\ rows_before = EmptyMap
    /\ keyed = NoKeyed
    /\ keyed_request = None
    /\ keyed_count = 0

KeyedIdle ==
    /\ rows = EmptyMap /\ rows_before = EmptyMap
    /\ keyed = NoKeyed
    /\ keyed_request = None
    /\ keyed_count = 0

(***************************************************************************)
(* UsersStream: futures::stream::unfold over advance_users_stream          *)
(* The table answers a scan page by page: page p carries the cursor        *)
(* Some(p) as last_evaluated_key unless it is the last one, a request      *)
(* without exclusive_start_key gets page 1 and a request with Some(p) gets *)
(* page p + 1.  An item is [user_name, payload]; payload "junk" does not   *)
(* deserialize into a User.  The state of the stream is the                *)
(* Option<(Option<Item>, VecDeque<Item>)> of the code, [last, items].      *)
(***************************************************************************)
\* the table's answer to a scan: [items, last_evaluated_key]
Store_page(pages, exclusive_start_key) ==
    IF exclusive_start_key = None THEN pages[1]
    ELSE pages[Unwrap(exclusive_start_key) + 1]

\* User::from_item(item).map_err(Error::from)
User_from_item(item) ==
    IF item.payload = "User" THEN <<"Ok", [user_name |-> item.user_name]>>
    ELSE Err(ItemDeserializationError("user"))

\* the error of a failed request, err.into()
SdkError == [kind |-> "SdkError", entity_type |-> ""]

\* UsersStream::handle_returned_items: None ends the stream
handle_returned_items(output) ==
    IF output.items = <<>> THEN None
    ELSE Some([output |-> User_from_item(Head(output.items)),
               state |-> Some([last |-> output.last_evaluated_key,
                               items |-> Tail(output.items)])])

\* a slip: the cursor is looked at before the buffer, so a page is
\* requested while items of the last one are still unread
advance_users_stream_cursor_first(pages, state, fails) ==
    IF IsSome(state)
    THEN LET last == Unwrap(state).last
             its == Unwrap(state).items
         IN  IF last # None
             THEN [request |-> Some([exclusive_start_key |-> last, buffered |-> its]),
                   next |-> IF fails
                            THEN Some([output |-> Err(SdkError),
                                       state |-> Some([last |-> last, items |-> its])])
                            ELSE handle_returned_items(Store_page(pages, last))]
             ELSE IF its # <<>>
             THEN [request |-> None,
                   next |-> Some([output |-> User_from_item(Head(its)),
                                  state |-> Some([last |-> last, items |-> Tail(its)])])]
             ELSE [request |-> None, next |-> None]
    ELSE [request |-> Some([exclusive_start_key |-> None, buffered |-> <<>>]),
          next |-> IF fails THEN Some([output |-> Err(SdkError), state |-> None])
                   ELSE handle_returned_items(Store_page(pages, None))]

\* UsersStream::advance_users_stream: [request, next]; request is the scan
\* it issues, if any, with what the buffer held at that time; next is what
\* it returns to unfold, None or Some([output, state]).  `fails` is the
\* outcome of the request.
advance_users_stream(pages, state, fails) ==
    IF IsSome(state)
    THEN LET last == Unwrap(state).last
             its == Unwrap(state).items
         IN  IF its # <<>>
             THEN [request |-> None,
                   next |-> Some([output |-> User_from_item(Head(its)),
                                  state |-> Some([last |-> last, items |-> Tail(its)])])]
             ELSE IF last = None
             THEN [request |-> None, next |-> None]
             ELSE [request |-> Some([exclusive_start_key |-> last, buffered |-> its]),
                   next |-> IF fails
                            THEN Some([output |-> Err(SdkError),
                                       state |-> Some([last |-> last, items |-> its])])
                            ELSE handle_returned_items(Store_page(pages, last))]
    ELSE [request |-> Some([exclusive_start_key |-> None, buffered |-> <<>>]),
          next |-> IF fails THEN Some([output |-> Err(SdkError), state |-> None])
                   ELSE handle_returned_items(Store_page(pages, None))]

MaxPages == 3

MaxPageItems == 2

MaxFailures == 2

\* what a page can hold: up to MaxPageItems items, the last of which may
\* fail to deserialize
PagePayloads ==
    {s \in UNION {[1..n -> {"User", "junk"}] : n \in 0..MaxPageItems} :
        \A i \in DOMAIN s : s[i] = "junk" => i = Len(s)}

\* the tables a scan runs against: every page but the last returns a cursor
ScanTables ==
    {[p \in 1..n |->
        [items |-> [i \in DOMAIN shape[p] |->
                        [user_name |-> <<p, i>>, payload |-> shape[p][i]]],
         last_evaluated_key |-> IF p < n THEN Some(p) ELSE None]] :
        n \in 1..MaxPages, shape \in [1..MaxPages -> PagePayloads]}

\* the number of requests that failed so far
Failures(requests) == Cardinality({i \in DOMAIN requests : requests[i].failed})

\* Stream::poll_next of UsersStream: unfold calls the closure with its
\* state and keeps the state it returns
UsersStreamPollNext ==
    /\ scan_pages # <<>> /\ ~stream_done
    /\ \E fails \in BOOLEAN :
        LET step == advance_users_stream(scan_pages, stream_state, fails)
        IN  /\ fails => (step.request # None /\ Failures(scans) < MaxFailures)
            /\ scans' = IF step.request = None THEN scans
                        ELSE Append(scans,
                                [exclusive_start_key |-> Unwrap(step.request).exclusive_start_key,
                                 buffered |-> Unwrap(step.request).buffered,
                                 yielded_before |-> Len(yielded),
                                 failed |-> fails])
            /\ IF step.next = None
               THEN /\ stream_done' = TRUE
                    /\ UNCHANGED <<stream_state, yielded>>
               ELSE /\ stream_state' = Unwrap(step.next).state
                    /\ yielded' = Append(yielded, Unwrap(step.next).output)
                    /\ UNCHANGED stream_done
    /\ UNCHANGED scan_pages
    /\ UNCHANGED streamOthers

StreamInit ==
    /\ scan_pages \in ScanTables
    /\ stream_state = None
    /\ stream_done = FALSE
    /\ yielded = <<>>
    /\ scans = <<>>

StreamIdle ==
    /\ scan_pages = <<>>
    /\ stream_state = None
    /\ stream_done = FALSE
    /\ yielded = <<>>
    /\ scans = <<>>

(***************************************************************************)
(* App::get_order and App::delete_user_sessions                            *)
(* The function running is [fn, pc, next, order, last_result]: pc is       *)
(* "looping" inside the query loop, "joining" inside the join_next loop    *)
(* and "returned" afterwards.  One step of the query loop is one           *)
(* iteration: the request, the reduce of its page and what follows.  A     *)
(* spawned task is [session, status], status "running" until it finishes   *)
(* "ok", "err" (the delete failed) or "panicked" (a JoinError).            *)
(***************************************************************************)
\* Aggregate::reduce over the items of a page, as far as the loops go: it
\* fails when an item does not deserialize
reduce_page(rows_of_page) ==
    IF \E i \in DOMAIN rows_of_page : rows_of_page[i].payload = "junk"
    THEN Err(ItemDeserializationError("row")) ELSE Ok

\* one iteration of the loop of App::get_order: [request, caller, finished]
get_order_iteration(pages, self, fails) ==
    LET output == Store_page(pages, self.next)
        req == [exclusive_start_key |-> self.next, failed |-> fails,
                last_evaluated_key |-> IF fails THEN None ELSE output.last_evaluated_key]
    IN  IF fails
        THEN [request |-> req, caller |-> [self EXCEPT !.pc = "returned"],
              finished |-> Some(Err(SdkError))]
        ELSE IF IsErr(reduce_page(output.items))
        THEN [request |-> req, caller |-> [self EXCEPT !.pc = "returned"],
              finished |-> Some(reduce_page(output.items))]
        ELSE IF output.last_evaluated_key = None
        THEN [request |-> req,
              caller |-> [self EXCEPT !.pc = "returned", !.order = @ \o output.items],
              finished |-> Some(Ok)]
        ELSE [request |-> req,
              caller |-> [self EXCEPT !.order = @ \o output.items,
                                      !.next = output.last_evaluated_key],
              finished |-> None]

\* one iteration of the first loop of App::delete_user_sessions:
\* [request, caller, finished, spawned]; the query is built afresh by
\* user.query() and is given no exclusive_start_key
delete_user_sessions_iteration(pages, self, fails) ==
    LET output == Store_page(pages, None)
        req == [exclusive_start_key |-> None, failed |-> fails,
                last_evaluated_key |-> IF fails THEN None ELSE output.last_evaluated_key]
    IN  IF fails
        THEN [request |-> req, caller |-> [self EXCEPT !.pc = "returned"],
              finished |-> Some(Err(SdkError)), spawned |-> <<>>]
        ELSE IF IsErr(reduce_page(output.items))
        THEN [request |-> req, caller |-> [self EXCEPT !.pc = "returned"],
              finished |-> Some(reduce_page(output.items)), spawned |-> <<>>]
        ELSE [request |-> req,
              caller |-> [self EXCEPT !.pc = IF output.last_evaluated_key = None
                                             THEN "joining" ELSE "looping"],
              finished |-> None,
              spawned |-> [i \in DOMAIN output.items |->
                              [session |-> output.items[i].row, status |-> "running"]]]

\* the match on what join_next returned: the new last_result
join_next_arm(last_result, status) ==
    CASE status = "ok" -> last_result
      [] status = "err" -> Err(SdkError)
      [] status = "panicked" -> last_result

MaxRequests == 2

MaxPageRows == 1

RowPayloads ==
    {s \in UNION {[1..n -> {"row", "junk"}] : n \in 0..MaxPageRows} :
        \A i \in DOMAIN s : s[i] = "junk" => i = Len(s)}

\* the tables a query runs against: every page but the last returns a cursor
QueryTables ==
    {[p \in 1..n |->
        [items |-> [i \in DOMAIN shape[p] |-> [row |-> <<p, i>>, payload |-> shape[p][i]]],
         last_evaluated_key |-> IF p < n THEN Some(p) ELSE None]] :
        n \in 1..MaxPages, shape \in [1..MaxPages -> RowPayloads]}

NoCaller == [fn |-> "", pc |-> "", next |-> None, order |-> <<>>, last_result |-> Ok]

\* the tasks still running
Unfinished == {t \in DOMAIN tasks : tasks[t].status = "running"}

\* an iteration of the loop of get_order
GetOrderIterate ==
    /\ caller.fn = "get_order" /\ caller.pc = "looping"
    /\ \E fails \in BOOLEAN :
        LET step == get_order_iteration(query_pages, caller, fails)
        IN  /\ fails => Failures(page_requests) < MaxFailures
            /\ page_requests' = Append(page_requests, step.request)
            /\ caller' = step.caller
            /\ finished' = IF step.finished = None THEN None
                           ELSE Some([result |-> Unwrap(step.finished),
                                      unfinished |-> Unfinished])
    /\ UNCHANGED <<query_pages, tasks, completed>>
    /\ UNCHANGED loopOthers

\* an iteration of the query loop of delete_user_sessions; returning from
\* inside the loop drops the JoinSet with whatever tasks are still running
DeleteUserSessionsIterate ==
    /\ caller.fn = "delete_user_sessions" /\ caller.pc = "looping"
    /\ Len(page_requests) < MaxRequests
    /\ \E fails \in BOOLEAN :
        LET step == delete_user_sessions_iteration(query_pages, caller, fails)
        IN  /\ fails => Failures(page_requests) < MaxFailures
            /\ page_requests' = Append(page_requests, step.request)
            /\ caller' = step.caller
            /\ tasks' = tasks \o step.spawned
            /\ finished' = IF step.finished = None THEN None
                           ELSE Some([result |-> Unwrap(step.finished),
                                      unfinished |-> Unfinished])
    /\ UNCHANGED <<query_pages, completed>>
    /\ UNCHANGED loopOthers

\* a spawned task finishes: the delete succeeded, failed, or the task
\* panicked
TaskFinish ==
    /\ caller.pc \in {"looping", "joining"}
    /\ \E t \in Unfinished, status \in {"ok", "err", "panicked"} :
        /\ tasks' = [tasks EXCEPT ![t].status = status]
        /\ completed' = Append(completed, t)
    /\ UNCHANGED <<query_pages, caller, page_requests, finished>>
    /\ UNCHANGED loopOthers

\* joiner.join_next().await returned Some(next): the next completed task
JoinNext ==
    /\ caller.pc = "joining"
    /\ completed # <<>>
    /\ caller' = [caller EXCEPT
                    !.last_result = join_next_arm(@, tasks[Head(completed)].status)]
    /\ completed' = Tail(completed)
    /\ UNCHANGED <<query_pages, page_requests, tasks, finished>>
    /\ UNCHANGED loopOthers

\* joiner.join_next().await returned None, the set being empty:
\* Ok(last_result?)
JoinReturn ==
    /\ caller.pc = "joining"
    /\ completed = <<>> /\ Unfinished = {}
    /\ caller' = [caller EXCEPT !.pc = "returned"]
    /\ finished' = Some([result |-> caller.last_result, unfinished |-> Unfinished])
    /\ UNCHANGED <<query_pages, page_requests, tasks, completed>>
    /\ UNCHANGED loopOthers

LoopInit ==
    /\ query_pages \in QueryTables
    /\ caller \in {[NoCaller EXCEPT !.fn = f, !.pc = "looping"] :
                      f \in {"get_order", "delete_user_sessions"}}
    /\ page_requests = <<>>
    /\ tasks = <<>>
    /\ completed = <<>>
    /\ finished = None

LoopIdle ==
    /\ query_pages = <<>>
    /\ caller = NoCaller
    /\ page_requests = <<>>
    /\ tasks = <<>>
    /\ completed = <<>>
    /\ finished = None

(***************************************************************************)
(* Properties of the expression builders and the execute paths             *)
(***************************************************************************)
Sent == IsSome(request)

\* the map carried by an optional map field, empty when the field is None
MapOf(o) == IF IsSome(o) THEN Unwrap(o) ELSE EmptyMap

SentNames == MapOf(Unwrap(request).expression_attribute_names)

SentValues == MapOf(Unwrap(request).expression_attribute_values)

\* the lists of an optional fragment, empty when there is no fragment
NamesOf(o) == IF IsSome(o) THEN Unwrap(o).names ELSE <<>>

ValuesOf(o) == IF IsSome(o) THEN Unwrap(o).values ELSE <<>>

SensitiveValuesOf(o) == IF IsSome(o) THEN Unwrap(o).sensitive_values ELSE <<>>

\* every key of the pairs is a key of the map, bound to the value the list
\* gave it last
Carries(map, pairs) ==
    \A k \in Keys(pairs) : k \in DOMAIN map /\ map[k] = LastValue(pairs, k)

\* C1: in a sent update-item request every name placeholder of the Update
\* fragment and of the Condition fragment is a key of the merged names map,
\* every value placeholder of both a key of the merged values map, each bound
\* to what its own fragment supplied (the last binding when a fragment
\* repeats a key), and the merged maps hold nothing else: no Condition entry
\* replaces an Update entry or the reverse.
C1_MergedUpdateKeepsBothFragments ==
    (Sent /\ op = "UpdateItem") =>
        /\ Carries(SentNames, NamesOf(update))
        /\ Carries(SentNames, NamesOf(condition))
        /\ DOMAIN SentNames = Keys(NamesOf(update)) \cup Keys(NamesOf(condition))
        /\ Carries(SentValues, ValuesOf(update) \o SensitiveValuesOf(update))
        /\ Carries(SentValues, ValuesOf(condition) \o SensitiveValuesOf(condition))
        /\ DOMAIN SentValues =
              Keys(ValuesOf(update) \o SensitiveValuesOf(update))
                \cup Keys(ValuesOf(condition) \o SensitiveValuesOf(condition))

\* an update-item request was sent whose Update and Condition fragments were
\* both given the caller-written name #x, bound to different attributes
C1_Witness ==
    /\ Sent /\ op = "UpdateItem" /\ IsSome(condition)
    /\ raw.Update.names = <<NAME_X>> /\ raw.Condition.names = <<NAME_X>>
    /\ Unwrap(update).names[1][2] # Unwrap(condition).names[1][2]
    /\ Cardinality(DOMAIN SentNames) = 2

\* the expression a template becomes when each sigil is followed by the
\* prefix once and nothing else moves (one left-to-right pass)
RECURSIVE Prefixed(_, _)
Prefixed(prefix, s) ==
    IF s = <<>> THEN <<>>
    ELSE (IF Head(s) \in {"#", ":"} THEN <<Head(s)>> \o prefix ELSE <<Head(s)>>)
            \o Prefixed(prefix, Tail(s))

\* the token a caller-written key stands for: the sigil and the name
TokenOf(sigil, k) == IF k # <<>> /\ Head(k) = sigil THEN k ELSE <<sigil>> \o k

IsSubSeq(a, b) ==
    \E i \in 0..(Len(b) - Len(a)) : SubSeq(b, i + 1, i + Len(a)) = a

PrefixOf(b) ==
    CASE b = "Filter" -> <<"f", "l", "t", "_">>
      [] b = "Update" -> <<"u", "p", "d", "_">>
      [] b = "Condition" -> <<"c", "n", "d", "_">>

FragmentOf(b) ==
    CASE b = "Filter" -> filter
      [] b = "Update" -> update
      [] b = "Condition" -> condition

\* the placeholders registered in `pairs` are, index by index, the rewritten
\* tokens of the keys the caller passed, and each occurs in the rewritten
\* expression when its token occurs in the template
RegisteredAsRewritten(b, sigil, pairs, keys) ==
    /\ Len(pairs) = Len(keys)
    /\ \A i \in DOMAIN keys :
        /\ pairs[i][1] = Prefixed(PrefixOf(b), TokenOf(sigil, keys[i]))
        /\ IsSubSeq(TokenOf(sigil, keys[i]), Unwrap(raw[b].template))
              => IsSubSeq(pairs[i][1], Unwrap(FragmentOf(b)).expression)

\* C2: for Filter, Update and Condition the expression is, after
\* construction and after every append, the template with each # and :
\* followed by the builder's prefix exactly once, and every name, value and
\* sensitive_value call has registered exactly the placeholder its token has
\* in that rewritten expression (the key prefixed once).
C2_PrefixedOnceAndKeysMatch ==
    \A b \in Builders :
        IsSome(FragmentOf(b)) =>
            /\ Unwrap(FragmentOf(b)).expression
                  = Prefixed(PrefixOf(b), Unwrap(raw[b].template))
            /\ RegisteredAsRewritten(b, "#", Unwrap(FragmentOf(b)).names, raw[b].names)
            /\ RegisteredAsRewritten(b, ":", Unwrap(FragmentOf(b)).values, raw[b].values)
            /\ RegisteredAsRewritten(b, ":", Unwrap(FragmentOf(b)).sensitive_values,
                                     raw[b].sensitive_values)

\* a Condition built from a template holding both #x and :x, after
\* name("#x", ..) and value(":x", ..)
C2_Witness ==
    /\ IsSome(condition)
    /\ IsSubSeq(NAME_X, Unwrap(raw.Condition.template))
    /\ IsSubSeq(VALUE_X, Unwrap(raw.Condition.template))
    /\ raw.Condition.names = <<NAME_X>>
    /\ raw.Condition.values = <<VALUE_X>>

\* the (placeholder, value) pairs that reach the values map without having
\* been given through sensitive_value
PlainPairs ==
    Range(ValuesOf(filter)) \cup Range(ValuesOf(update)) \cup Range(ValuesOf(condition))
        \cup (IF IsSome(key_condition)
              THEN Range(KeyCondition_values(Unwrap(key_condition))) ELSE {})

SensitivePairs ==
    Range(SensitiveValuesOf(filter)) \cup Range(SensitiveValuesOf(update))
        \cup Range(SensitiveValuesOf(condition))

Captured == MapOf(Unwrap(span).expression_attribute_values)

\* C3: in every executed operation (put, update, delete, query, scan) each
\* entry of the value map recorded on the span was supplied as a plain value
\* (or by the key condition), so an entry supplied only through
\* sensitive_value is never recorded, while every sensitive placeholder is in
\* the request that is sent, bound to its sensitive value.
C3_SensitiveValuesNotCaptured ==
    Sent =>
        /\ \A k \in DOMAIN Captured : <<k, Captured[k]>> \in PlainPairs
        /\ \A p \in SensitivePairs \ PlainPairs :
              ~(p[1] \in DOMAIN Captured /\ Captured[p[1]] = p[2])
        /\ Carries(SentValues, SensitiveValuesOf(filter))
        /\ Carries(SentValues, SensitiveValuesOf(update))
        /\ Carries(SentValues, SensitiveValuesOf(condition))

\* an update-item request was sent carrying a plain value and, under another
\* placeholder, a sensitive one: the span recorded the plain value only
C3_Witness ==
    /\ Sent /\ op = "UpdateItem"
    /\ Len(Unwrap(update).values) = 1
    /\ Len(Unwrap(update).sensitive_values) = 1
    /\ Unwrap(update).values[1][1] # Unwrap(update).sensitive_values[1][1]
    /\ Cardinality(DOMAIN Captured) = 1
    /\ Cardinality(DOMAIN SentValues) = 2

(***************************************************************************)
(* Properties of Aggregate::reduce                                         *)
(***************************************************************************)
\* the discriminator names a variant of the aggregate's projection set
IsKnown(item) ==
    /\ item.entity_type # None
    /\ Unwrap(item.entity_type)[1] = "S"
    /\ Unwrap(item.entity_type)[2] \in Range(projections.variants)

\* the discriminator is a string that names no variant of the set
IsUnknown(item) ==
    /\ item.entity_type # None
    /\ Unwrap(item.entity_type)[1] = "S"
    /\ Unwrap(item.entity_type)[2] \notin Range(projections.variants)

\* a known item whose payload decodes into its variant
IsSound(item) == IsKnown(item) /\ item.payload = Unwrap(item.entity_type)[2]

\* the entities the sound items of a list decode into, in order
RECURSIVE DecodedKnown(_)
DecodedKnown(list) ==
    IF list = <<>> THEN <<>>
    ELSE (IF IsSound(Head(list))
          THEN <<[variant |-> Head(list).payload, payload |-> Head(list).payload]>>
          ELSE <<>>) \o DecodedKnown(Tail(list))

\* every item of the page carries a string discriminator, known and
\* decodable or unknown
MixedPage == \A i \in DOMAIN page : IsSound(page[i]) \/ IsUnknown(page[i])

\* C4: reducing a page whose items all carry a discriminator, known or
\* unknown, never returns an error, and when it returns the aggregate holds
\* exactly one decoded entity per known item, in page order, wherever the
\* unknown items sit.
C4_UnknownItemsAreSkipped ==
    MixedPage =>
        /\ result # None => result = Some(Ok)
        /\ aggregate = DecodedKnown(merged)
        /\ result = Some(Ok) => aggregate = DecodedKnown(page)

\* a page of two known items around one unknown item was reduced: success
\* and two entities
C4_Witness ==
    /\ Len(page) = 3
    /\ IsSound(page[1]) /\ IsUnknown(page[2]) /\ IsSound(page[3])
    /\ result = Some(Ok)
    /\ Len(aggregate) = 2

\* C5 as stated: reduce stops at the first item whose merge signals "ignore,
\* unknown type": no item after an unknown one is ever passed to merge.
C5_Original_StopsAtFirstUnknown ==
    \A i \in DOMAIN merged : IsUnknown(merged[i]) => i = Len(merged)

\* C5 amended: an item whose merge signals "ignore, unknown type" ends that
\* merge call only.  reduce neither returns nor fails at it: with items left
\* it is still running, every later item is passed to merge, and success is
\* returned only once the whole page was passed to merge.
C5_UnknownEndsMergeNotReduce ==
    /\ (merged # <<>> /\ IsUnknown(merged[Len(merged)])) =>
          \/ result = None
          \/ (result = Some(Ok) /\ items = <<>>)
    /\ result = Some(Ok) => merged = page
    /\ Len(merged) + Len(items) = Len(page)
    /\ \A i \in DOMAIN merged : merged[i] = page[i]

\* an unknown item was passed to merge and, after it, a later item of the
\* page as well
C5_Witness ==
    /\ Len(merged) >= 2
    /\ IsUnknown(merged[1])
    /\ IsSound(merged[2])
    /\ Len(aggregate) = 1


(***************************************************************************)
(* Properties of the projection compiler and of projection_expression      *)
(***************************************************************************)
IdentifierBytes == AsciiAlphanumeric \cup {"_"}

EqualsIgnoringCase(s, word) ==
    /\ Len(s) = Len(word)
    /\ \A i \in DOMAIN s :
          (IF s[i] \in DOMAIN ToUpperMap THEN ToUpperMap[s[i]] ELSE s[i]) = word[i]

\* the name is a reserved word in any letter case, or has a byte that no
\* identifier has
NeedsPlaceholder(s) ==
    \/ \E word \in RESERVED_WORDS : EqualsIgnoringCase(s, word)
    \/ \E i \in DOMAIN s : s[i] \notin IdentifierBytes

\* the names of a list without repetitions, in order of first occurrence
RECURSIVE DistinctFrom(_, _)
DistinctFrom(list, i) ==
    IF i > Len(list) THEN <<>>
    ELSE (IF \A j \in 1..(i - 1) : list[j] # list[i] THEN <<list[i]>> ELSE <<>>)
         \o DistinctFrom(list, i + 1)

Distinct(list) == DistinctFrom(list, 1)

\* #prj_ and k as three decimal digits
Placeholder(k) ==
    <<"#", "p", "r", "j", "_">>
    \o <<DecimalDigits[(k \div 100) + 1],
         DecimalDigits[((k \div 10) % 10) + 1],
         DecimalDigits[(k % 10) + 1]>>

\* how many names before position i of d are substituted
Substituted(d, i) == Cardinality({j \in 1..(i - 1) : NeedsPlaceholder(d[j])})

ExpectedSegment(d, i) ==
    IF NeedsPlaceholder(d[i]) THEN Placeholder(Substituted(d, i)) ELSE d[i]

RECURSIVE JoinFrom(_, _)
JoinFrom(d, i) ==
    IF i > Len(d) THEN <<>>
    ELSE ExpectedSegment(d, i) \o (IF i < Len(d) THEN <<",">> ELSE <<>>) \o JoinFrom(d, i + 1)

RECURSIVE ExpectedNamesFrom(_, _)
ExpectedNamesFrom(d, i) ==
    IF i > Len(d) THEN <<>>
    ELSE (IF NeedsPlaceholder(d[i]) THEN <<<<ExpectedSegment(d, i), d[i]>>>> ELSE <<>>)
         \o ExpectedNamesFrom(d, i + 1)

\* C7: whatever list is compiled, a name is replaced by a placeholder exactly
\* when it is a reserved word in any letter case or has a byte outside
\* [A-Za-z0-9_], every other name is emitted as written, the k-th substituted
\* distinct name gets #prj_ and k as three digits, and the name map holds
\* exactly those (placeholder, name) pairs in that order.
C7_PlaceholderIffReservedOrInvalid ==
    compiled # None =>
        LET prj == Unwrap(compiled)
            d == Distinct(attr_input)
        IN  /\ prj.expression = JoinFrom(d, 1)
            /\ prj.names = ExpectedNamesFrom(d, 1)

\* a mixed-case reserved word, a name with a dot and a plain identifier were
\* compiled: two placeholders, numbered 000 and 001
C7_Witness ==
    /\ compiled # None
    /\ attr_input = <<ATTR_MIXED_AS, ATTR_ID, ATTR_DOTTED>>
    /\ Unwrap(compiled).names =
          <<<<Placeholder(0), ATTR_MIXED_AS>>, <<Placeholder(1), ATTR_DOTTED>>>>
    /\ Len(Unwrap(compiled).expression) = 8 + 1 + 2 + 1 + 8

\* the comma-separated segments of an expression
RECURSIVE Split(_)
Split(s) ==
    IF \A i \in DOMAIN s : s[i] # ","
    THEN <<s>>
    ELSE LET i == CHOOSE k \in DOMAIN s : s[k] = "," /\ \A j \in 1..(k - 1) : s[j] # ","
         IN  <<SubSeq(s, 1, i - 1)>> \o Split(SubSeq(s, i + 1, Len(s)))

\* the attribute a segment stands for: the mapped name of a placeholder,
\* the segment itself otherwise
Resolve(prj, segment) ==
    IF \E i \in DOMAIN prj.names : prj.names[i][1] = segment
    THEN prj.names[CHOOSE i \in DOMAIN prj.names : prj.names[i][1] = segment][2]
    ELSE segment

\* C8: for a non-empty list, the expression has one comma-separated segment
\* per distinct name, in order of first occurrence; a repeated name adds no
\* segment, no name-map entry and no step of the placeholder counter.
C8_OneSegmentPerDistinctName ==
    (compiled # None /\ attr_input # <<>>) =>
        LET prj == Unwrap(compiled)
            segments == Split(prj.expression)
            d == Distinct(attr_input)
        IN  /\ Len(segments) = Cardinality(Range(attr_input))
            /\ Len(segments) = Len(d)
            /\ \A i \in DOMAIN segments : Resolve(prj, segments[i]) = d[i]
            /\ \A i, j \in DOMAIN prj.names : prj.names[i][2] = prj.names[j][2] => i = j
            /\ \A i \in DOMAIN prj.names : prj.names[i][1] = Placeholder(i - 1)

\* a list that repeats a substituted name and a literal name was compiled
C8_Witness ==
    /\ compiled # None
    /\ attr_input = <<ATTR_AS, ATTR_ID, ATTR_AS>>
    /\ Unwrap(compiled).expression = Placeholder(0) \o <<",">> \o ATTR_ID
    /\ Len(Unwrap(compiled).names) = 1

\* some variant of the set in use has an empty projected-attribute list
HasFlatVariant ==
    \E i \in DOMAIN projection_set.types : PROJECTED_ATTRIBUTES(projection_set.types[i]) = <<>>

\* C6 as stated: for every projection set, blanket or generated, with a
\* variant whose projected-attribute list is empty, projection_expression()
\* returns None and the query built from the set carries no projection.
C6_FlatVariantGivesNoProjection ==
    (projection_set # NoProjectionSet /\ HasFlatVariant) =>
        /\ returned # None => Unwrap(returned) = None
        /\ query # None => Unwrap(query).projection = None

(***************************************************************************)
(* Properties of key and entity serialization                              *)
(***************************************************************************)
IsLocal(definition) == definition.hash_key = Primary_DEFINITION.hash_key

PresentSlots(indexes) == {i \in DOMAIN indexes : indexes[i].key # None}

HasLocalKey(indexes) == \E i \in PresentSlots(indexes) : IsLocal(indexes[i].definition)

\* C9: when the index keys of a FullKey include a local-secondary-index key,
\* the item of into_key() holds the primary key's hash under the table's hash
\* attribute, whatever hash the local key carries and wherever it sits, and
\* still holds the local key's range, every global key's hash and range and
\* the primary range, each with its own value.
C9_PrimaryHashWinsOverLocalIndex ==
    (serialized # None /\ HasLocalKey(entity_in.full_key.indexes)) =>
        LET key == Unwrap(serialized)
            primary == entity_in.full_key.primary
            indexes == entity_in.full_key.indexes
        IN  /\ key[Primary_DEFINITION.hash_key] = primary.hash
            /\ key[Unwrap(Primary_DEFINITION.range_key)] = primary.range
            /\ \A i \in PresentSlots(indexes) :
                  /\ Unwrap(indexes[i].definition.range_key) \in DOMAIN key
                  /\ key[Unwrap(indexes[i].definition.range_key)] = Unwrap(indexes[i].key).range
                  /\ ~IsLocal(indexes[i].definition) =>
                        /\ indexes[i].definition.hash_key \in DOMAIN key
                        /\ key[indexes[i].definition.hash_key] = Unwrap(indexes[i].key).hash

\* a local key built with another hash than the primary key's sits before a
\* global key, and the full key was serialized
C9_Witness ==
    /\ serialized # None
    /\ Len(entity_in.full_key.indexes) = 2
    /\ entity_in.full_key.indexes[1].definition = Lsi3_DEFINITION
    /\ entity_in.full_key.indexes[1].key # None
    /\ Unwrap(entity_in.full_key.indexes[1].key).hash # entity_in.full_key.primary.hash
    /\ entity_in.full_key.indexes[2].definition = Gsi5_DEFINITION
    /\ entity_in.full_key.indexes[2].key # None
    /\ Cardinality(DOMAIN Unwrap(serialized)) = 5

\* the attributes of the index keys that are present
IndexAttributes(indexes) ==
    UNION {{indexes[i].definition.hash_key, Unwrap(indexes[i].definition.range_key)} :
              i \in PresentSlots(indexes)}

\* C10: the item of into_item() has exactly these attributes: the
\* discriminator holding ENTITY_TYPE, the attributes of every index key that
\* is present, the primary-key attributes and the entity's own data
\* attributes with their values; an index key that is None contributes none.
C10_ItemHasExactlyTypeKeysAndData ==
    wire_item # None =>
        LET produced == Unwrap(wire_item)
            indexes == entity_in.full_key.indexes
        IN  /\ DOMAIN produced =
                  {"entity_type"}
                  \cup IndexAttributes(indexes)
                  \cup {Primary_DEFINITION.hash_key, Unwrap(Primary_DEFINITION.range_key)}
                  \cup Keys(entity_in.data)
            /\ produced["entity_type"] = entity_in.ENTITY_TYPE
            /\ produced[Primary_DEFINITION.hash_key] = entity_in.full_key.primary.hash
            /\ produced[Unwrap(Primary_DEFINITION.range_key)] = entity_in.full_key.primary.range
            /\ \A i \in DOMAIN entity_in.data : produced[entity_in.data[i][1]] = entity_in.data[i][2]
            /\ \A i \in DOMAIN indexes :
                  indexes[i].key = None /\ ~IsLocal(indexes[i].definition) =>
                      indexes[i].definition.hash_key \notin DOMAIN produced
            /\ \A i \in DOMAIN indexes :
                  indexes[i].key = None =>
                      Unwrap(indexes[i].definition.range_key) \notin DOMAIN produced

\* an entity with one index key that is None and one that is Some was turned
\* into an item
C10_Witness ==
    /\ wire_item # None
    /\ Len(entity_in.full_key.indexes) = 2
    /\ entity_in.full_key.indexes[1].definition = Gsi1_DEFINITION
    /\ entity_in.full_key.indexes[1].key = None
    /\ entity_in.full_key.indexes[2].definition = Gsi5_DEFINITION
    /\ entity_in.full_key.indexes[2].key # None
    /\ Len(entity_in.data) = 2
    /\ Cardinality(DOMAIN Unwrap(wire_item)) = 7

(***************************************************************************)
(* Properties of the sort-key predicates                                   *)
(***************************************************************************)
SortKeyPredicates ==
    {"specific_item", "between", "less_than", "less_than_or_equal",
     "greater_than", "greater_than_or_equal", "begins_with"}

\* C11: a sort-key predicate called on a key definition without a range key
\* panics in that call: no KeyCondition comes back, so none with a sort key
\* over such a definition ever exists and no request is built or sent from
\* one; on a definition with a range key no predicate panics.
C11_SortKeyPredicatePanicsWithoutRangeKey ==
    /\ panicked # None =>
          /\ Unwrap(panicked).predicate \in SortKeyPredicates
          /\ Unwrap(panicked).key_type.range_key = None
          /\ key_condition = None
          /\ request = None
    /\ key_condition # None =>
          (Unwrap(key_condition).sort_key # None
              => Unwrap(key_condition).key_type.range_key # None)
    /\ request # None =>
          (Unwrap(request).key_condition_expression # Some(PARTITION_KEY_EXPRESSION)
              => Unwrap(key_condition).key_type.range_key # None)

\* begins_with was called on a condition over the index without a range key
C11_Witness ==
    /\ panicked # None
    /\ Unwrap(panicked).predicate = "begins_with"
    /\ Unwrap(panicked).key_type = HashOnly_DEFINITION
    /\ Unwrap(panicked).message = <<"Key on index", "GSI2", "does not have a range key">>

(***************************************************************************)
(* Properties of try_from_item's errors                                    *)
(***************************************************************************)
\* the discriminator names a variant, and the item does not decode into it
IsUndecodable(item) == IsKnown(item) /\ ~IsSound(item)

\* the item has no discriminator attribute, or one that is not a string
LacksEntityType(item) ==
    \/ item.entity_type = None
    \/ Unwrap(item.entity_type)[1] # "S"

\* C12: an item whose discriminator names a variant of the set and which
\* does not decode into that variant makes try_from_item return the decode
\* error carrying that variant's entity type; merge and reduce return it: the
\* item is the last one merged, it is not in the aggregate and it was not
\* decoded as another variant.
C12_UndecodableKnownItemIsAnError ==
    /\ \A i \in DOMAIN page :
          IsUndecodable(page[i]) =>
              try_from_item(projections, page[i])
                  = Err(ItemDeserializationError(Unwrap(page[i].entity_type)[2]))
    /\ \A i \in DOMAIN merged :
          IsUndecodable(merged[i]) =>
              /\ i = Len(merged)
              /\ result = Some(Err(ItemDeserializationError(Unwrap(merged[i].entity_type)[2])))
              /\ aggregate = DecodedKnown(SubSeq(merged, 1, i - 1))

\* after a user, an item marked "user" that holds an order was merged into
\* an aggregate whose set lists user before order
C12_Witness ==
    /\ projections.variants = <<"user", "order">>
    /\ merged = <<UserItem, MisfiledItem>>
    /\ result = Some(Err(ItemDeserializationError("user")))
    /\ Len(aggregate) = 1

\* C13: an item without the discriminator attribute, or with one that is not
\* a string, makes try_from_item return the missing-entity-type error, which
\* is neither a decode error nor the skip of an unknown type; reduce returns
\* it at that item and merges nothing after it.
C13_MissingEntityTypeIsAnError ==
    /\ \A i \in DOMAIN page :
          LacksEntityType(page[i]) =>
              /\ try_from_item(projections, page[i]) = Err(MissingEntityTypeError)
              /\ try_from_item(projections, page[i]) # <<"Ok", None>>
              /\ \A t \in Range(projections.variants) :
                    try_from_item(projections, page[i]) # Err(ItemDeserializationError(t))
    /\ \A i \in DOMAIN merged :
          LacksEntityType(merged[i]) =>
              /\ i = Len(merged)
              /\ result = Some(Err(MissingEntityTypeError))
              /\ Len(aggregate) < Len(merged)

\* an item with a numeric discriminator was merged after a user, and a
\* further item was left unmerged
C13_Witness ==
    /\ projections.kind = "projections"
    /\ Len(merged) = 2 /\ merged[1] = UserItem /\ merged[2] = MalformedItem
    /\ items # <<>>
    /\ result = Some(Err(MissingEntityTypeError))

(***************************************************************************)
(* Properties of the projection-expression caches                          *)
(***************************************************************************)
\* C14: for each projection set, every call of projection_expression(),
\* from any thread and in any interleaving, returns the same value: the same
\* leaked expression at the same address, also when several callers missed.
C14_EveryCallObservesOneValue ==
    \A o1 \in observed : \A o2 \in observed :
        o1.set = o2.set => o1.value = o2.value

\* two threads both missed on the same blanket set, two threads both missed
\* on the same projections! set, and all four calls have returned
C14_Witness ==
    \A kind \in {"blanket", "projections"} :
        \E o1 \in observed : \E o2 \in observed :
            /\ o1.thread # o2.thread
            /\ o1.set = o2.set /\ o1.set.kind = kind
            /\ o1.missed /\ o2.missed

\* C15: the projection expression of a projection set is generated (and
\* leaked) at most once in the lifetime of the program, for the OnceBox cells
\* as well as for the lock-guarded map.
C15_GeneratedExactlyOnce ==
    \A set \in CacheSets :
        Cardinality({i \in DOMAIN generated : generated[i] = set}) <= 1

C20_TransactItemCarriesWhatExecuteSends ==
    IsSome(transact_item) =>
        LET built == Unwrap(transact_item)
            sent == Unwrap(request)
        IN  /\ built.condition_expression = sent.condition_expression
            /\ built.update_expression = sent.update_expression
            /\ built.expression_attribute_names = sent.expression_attribute_names
            /\ built.expression_attribute_values = sent.expression_attribute_values

\* an update with a condition was executed and built, and its update
\* carries a value and a sensitive value under the same placeholder
C20_Witness ==
    /\ op = "UpdateItem" /\ IsSome(condition) /\ IsSome(transact_item)
    /\ Keys(Unwrap(update).values) \cap Keys(Unwrap(update).sensitive_values) # {}
    /\ \E i \in DOMAIN Unwrap(update).values :
        \E j \in DOMAIN Unwrap(update).sensitive_values :
            /\ Unwrap(update).values[i][1] = Unwrap(update).sensitive_values[j][1]
            /\ Unwrap(update).values[i][2] # Unwrap(update).sensitive_values[j][2]

(***************************************************************************)
(* Properties of conditional puts and transactional writes                 *)
(***************************************************************************)
\* the key a prepared put writes to
KeyOf(p) == ItemKey(into_item(p.entity))

\* the condition create() / replace() asks for does not hold in table tbl
Fails(p, tbl) ==
    \/ p.via = "create" /\ KeyOf(p) \in DOMAIN tbl
    \/ p.via = "replace" /\ KeyOf(p) \notin DOMAIN tbl

\* C17: create() executed for a key that holds no item succeeds and stores
\* the item; create() executed for a key that holds an item fails, leaves the
\* stored item as it was, and its error is classified as a conditional-check
\* failure by is_conditional_check_failed_exception.
C17_CreateSucceedsOnceThenFails ==
    (outcome.call = "PutItem" /\ outcome.prepared[1].via = "create") =>
        LET p == outcome.prepared[1]
        IN  IF KeyOf(p) \notin DOMAIN outcome.before
            THEN /\ outcome.result = Ok
                 /\ KeyOf(p) \in DOMAIN table
                 /\ table[KeyOf(p)] = into_item(p.entity)
            ELSE /\ IsErr(outcome.result)
                 /\ table = outcome.before
                 /\ is_conditional_check_failed_exception(outcome.result[2])

\* a create() stored an item, and a later create() of another record under
\* the same key has failed
C17_Witness ==
    /\ outcome.call = "PutItem" /\ outcome.prepared[1].via = "create"
    /\ KeyOf(outcome.prepared[1]) \in created
    /\ IsErr(outcome.result)
    /\ into_item(outcome.prepared[1].entity) # table[KeyOf(outcome.prepared[1])]

\* C18: a TransactWrite with an operation whose condition fails changes no
\* item of the store; its error carries a cancellation-reason list whose
\* entry at the attach position of each failing operation reports the
\* conditional-check failure, and is_conditional_check_failed_exception
\* classifies the error as one.
C18_FailedConditionCancelsTheTransaction ==
    (/\ outcome.call = "TransactWriteItems"
     /\ \E i \in DOMAIN outcome.prepared : Fails(outcome.prepared[i], outcome.before)) =>
        /\ table = outcome.before
        /\ IsErr(outcome.result)
        /\ outcome.result[2].variant = "TransactionCanceledException"
        /\ IsSome(outcome.result[2].cancellation_reasons)
        /\ LET reasons == Unwrap(outcome.result[2].cancellation_reasons)
           IN  /\ DOMAIN reasons = DOMAIN outcome.prepared
               /\ \A i \in DOMAIN outcome.prepared :
                    Fails(outcome.prepared[i], outcome.before)
                        <=> reasons[i].code = Some("ConditionalCheckFailed")
        /\ is_conditional_check_failed_exception(outcome.result[2])

\* a transaction of two operations was executed against a table that holds
\* an item: the condition of the first held, that of the second did not
C18_Witness ==
    /\ outcome.call = "TransactWriteItems"
    /\ Len(outcome.prepared) = 2
    /\ outcome.before # EmptyMap
    /\ outcome.prepared[1].via \in {"create", "replace"}
    /\ ~Fails(outcome.prepared[1], outcome.before)
    /\ Fails(outcome.prepared[2], outcome.before)

\* the puts at hand: the prepared one and those attached to the transaction
PutsAtHand == ({prepared} \cup Range(attached)) \ {NoPrepared}

\* C19: create() yields a put whose condition is attribute_not_exists on the
\* table's primary hash-key attribute, replace() one whose condition is
\* attribute_exists on that attribute, put() one with no condition; all three
\* carry the item into_item() gives for the record.
C19_CreateReplacePutConditions ==
    \A p \in PutsAtHand :
        LET sent == ConditionalPut_execute(p.put).expressions
        IN  /\ p.put.item = into_item(p.entity)
            /\ p.via = "put" => sent.condition_expression = None
            /\ p.via \in {"create", "replace"} =>
                /\ IsSome(sent.condition_expression)
                /\ ConditionFunction(Unwrap(sent.condition_expression)) =
                       IF p.via = "create" THEN FN_ATTRIBUTE_NOT_EXISTS
                       ELSE FN_ATTRIBUTE_EXISTS
                /\ ConditionAttribute(Unwrap(sent.condition_expression),
                                      sent.expression_attribute_names)
                       = Primary_DEFINITION.hash_key
                /\ sent.expression_attribute_values = None

\* a put() and a replace() are attached to a transaction and a create() is
\* at hand
C19_Witness ==
    /\ prepared.via = "create"
    /\ {attached[i].via : i \in DOMAIN attached} = {"put", "replace"}

(***************************************************************************)
(* Properties of the placeholders of a key condition                       *)
(***************************************************************************)
\* the end of the placeholder that starts at position i of s
RECURSIVE WordEnd(_, _)
WordEnd(s, i) ==
    IF i < Len(s) /\ ~is_invalid(s[i + 1]) THEN WordEnd(s, i + 1) ELSE i

\* the placeholders of an expression that start with the given sigil
PlaceholdersIn(s, sigil) ==
    {SubSeq(s, i, WordEnd(s, i)) : i \in {j \in DOMAIN s : s[j] = sigil}}

\* C28: for every KeyCondition that can be built, names() returns exactly the
\* #key_ placeholders that occur in expression() and values() exactly the
\* :key_ placeholders that occur in it, none missing and none unused; also
\* for a partition-only condition on a key definition with a range key.
C28_PlaceholdersAreThoseOfTheExpression ==
    IsSome(key_condition) =>
        LET kc == Unwrap(key_condition)
        IN  /\ Keys(KeyCondition_names(kc)) = PlaceholdersIn(KeyCondition_expression(kc), "#")
            /\ Keys(KeyCondition_values(kc)) = PlaceholdersIn(KeyCondition_expression(kc), ":")

(***************************************************************************)
(* Properties of a reduce that fails                                       *)
(***************************************************************************)
\* C30: when reduce returns an error at some item, the aggregate holds
\* exactly the contributions of the known-type items that preceded the
\* failing item, and no item after the failing one was passed to merge.
C30_FailedReduceKeepsThePrefix ==
    (result # None /\ IsErr(Unwrap(result))) =>
        /\ merged # <<>>
        /\ merged = SubSeq(page, 1, Len(merged))
        /\ items = SubSeq(page, Len(merged) + 1, Len(page))
        /\ ~IsSound(merged[Len(merged)])
        /\ aggregate = DecodedKnown(SubSeq(merged, 1, Len(merged) - 1))

\* a Vec<P> was reduced: its first item was pushed, the second one failed
\* and a third one is left in the iterator
C30_Witness ==
    /\ projections.kind = "blanket"
    /\ result # None /\ IsErr(Unwrap(result))
    /\ Len(merged) = 2 /\ IsSound(merged[1])
    /\ Len(aggregate) = 1
    /\ Len(items) = 1 /\ IsSound(items[1])

(***************************************************************************)
(* Properties of the projection expression of a projection set             *)
(***************************************************************************)
\* the attribute lists of the variants of the set in use, in declared order
VariantAttributes ==
    [i \in DOMAIN projection_set.types |-> PROJECTED_ATTRIBUTES(projection_set.types[i])]

\* every variant of the set in use lists at least one attribute
EveryVariantListsAttributes ==
    \A i \in DOMAIN VariantAttributes : VariantAttributes[i] # <<>>

\* C27: when every variant of a projection set has a non-empty attribute
\* list, projection_expression() names each distinct attribute of every
\* variant exactly once, in declared variant order then attribute order,
\* followed by the discriminator attribute, with reserved or invalid names
\* replaced by placeholders; the discriminator is among the attributes
\* projected.
C27_SetExpressionNamesEveryAttributeOnce ==
    (projection_set # NoProjectionSet /\ EveryVariantListsAttributes /\ returned # None) =>
        /\ IsSome(Unwrap(returned))
        /\ LET prj == Unwrap(Unwrap(returned))
               segments == Split(prj.expression)
               d == Distinct(flatten(VariantAttributes) \o <<ENTITY_TYPE_ATTRIBUTE>>)
           IN  /\ Len(segments) = Len(d)
               /\ \A i \in DOMAIN segments :
                    /\ Resolve(prj, segments[i]) = d[i]
                    /\ (segments[i] # d[i]) <=> NeedsPlaceholder(d[i])
               /\ Resolve(prj, segments[Len(segments)]) = ENTITY_TYPE_ATTRIBUTE
               /\ \A i \in 1..(Len(segments) - 1) :
                    Resolve(prj, segments[i]) # ENTITY_TYPE_ATTRIBUTE

(***************************************************************************)
(* Properties of the limit of a Query or Scan                              *)
(***************************************************************************)
\* the limit the calls made so far ask for: that of the last call
AskedLimit ==
    IF limit_calls = <<>> THEN None
    ELSE LET n == limit_calls[Len(limit_calls)].arg
         IN  IF n = None THEN None
             ELSE IF Unwrap(n).hi > 32767 THEN None
             ELSE Some(Unwrap(n).hi * 65536 + Unwrap(n).lo)

\* C21: limit(n) with n above i32::MAX leaves the builder, and the request
\* execute sends, with no limit at all, whatever limit was set before;
\* limit(n) with n at most i32::MAX sends exactly n; set_limit(None) clears
\* the limit; set_limit(Some(n)) is limit(n).  No call on the limit fails.
C21_LimitSentIsTheLastOneAsked ==
    /\ read_builder.limit = AskedLimit
    /\ read_builder.operation \in {"", "Query", "Scan"}
    /\ read_request # None =>
        /\ Unwrap(read_request).limit = AskedLimit
        /\ Unwrap(read_request).operation = read_builder.operation

\* a limit within range was set, then one above i32::MAX, and the request
\* went out without a limit
C21_Witness ==
    /\ Len(limit_calls) = 2
    /\ limit_calls[1].arg = Some(u32(0, 1))
    /\ limit_calls[2] = [call |-> "limit", arg |-> Some(u32(32768, 0))]
    /\ read_request # None /\ Unwrap(read_request).limit = None

(***************************************************************************)
(* Properties of the operations addressed by primary key                   *)
(***************************************************************************)
\* the attributes of the secondary indexes that are not those of the
\* primary key
SecondaryIndexAttributes ==
    UNION {{d.hash_key} \cup Range(d.range_key) : d \in IndexDefinitions}
    \ {"PK", "SK"}

\* the item the key of the operation at hand held before its request, the
\* bare key when it held none
KeyedBefore ==
    IF Entity_primary_key(keyed.input) \in DOMAIN rows_before
    THEN rows_before[Entity_primary_key(keyed.input)]
    ELSE keyed.op.key

\* C26: the key that update(), delete() and condition_check() carry, and
\* the key their request sends, holds exactly the attributes PK and SK with
\* the values of primary_key(input), and no attribute of a secondary index;
\* an executed update changes, in the item of that key, only the attribute
\* its update expression names, so every index attribute it does not name
\* stays as it was, and no other item changes.
C26_KeyIsThePrimaryKeyAndUpdateTouchesOnlyNamed ==
    /\ keyed # NoKeyed =>
        /\ DOMAIN keyed.op.key = {"PK", "SK"}
        /\ keyed.op.key["PK"] = Entity_primary_key(keyed.input).hash
        /\ keyed.op.key["SK"] = Entity_primary_key(keyed.input).range
        /\ (DOMAIN keyed.op.key) \cap SecondaryIndexAttributes = {}
        /\ keyed_request # None => Unwrap(keyed_request).key = Some(keyed.op.key)
    /\ (keyed.via = "update" /\ keyed_request # None) =>
        LET k == Entity_primary_key(keyed.input)
            named == Unwrap(keyed.update).names[1][2]
        IN  /\ k \in DOMAIN rows
            /\ \A a \in ((DOMAIN rows[k]) \cup (DOMAIN KeyedBefore)) \ {named} :
                /\ a \in DOMAIN rows[k] /\ a \in DOMAIN KeyedBefore
                /\ rows[k][a] = KeyedBefore[a]
            /\ \A j \in ((DOMAIN rows) \cup (DOMAIN rows_before)) \ {k} :
                /\ j \in DOMAIN rows /\ j \in DOMAIN rows_before
                /\ rows[j] = rows_before[j]

\* an update of an attribute of the entity ran against an item that carries
\* the attributes of an index: the attribute changed, those of the index
\* did not
C26_Witness ==
    /\ keyed.via = "update" /\ keyed_request # None
    /\ Entity_primary_key(keyed.input) \in DOMAIN rows_before
    /\ LET k == Entity_primary_key(keyed.input)
       IN  /\ "GSI1PK" \in DOMAIN rows_before[k]
           /\ "name" \in DOMAIN rows_before[k]
           /\ rows[k]["name"] = "v9" /\ rows_before[k]["name"] # "v9"
           /\ rows[k]["GSI1PK"] = rows_before[k]["GSI1PK"]
           /\ rows[k]["GSI1SK"] = rows_before[k]["GSI1SK"]

(***************************************************************************)
(* Properties of the users stream                                          *)
(***************************************************************************)
\* what the stream yields for the items of a page
OutputsOf(its) == [k \in DOMAIN its |-> User_from_item(its[k])]

\* what the stream owes for the pages the successful ones of the first n
\* scans fetched, in order
RECURSIVE FetchedOutputs(_)
FetchedOutputs(n) ==
    IF n = 0 THEN <<>>
    ELSE FetchedOutputs(n - 1)
         \o (IF scans[n].failed THEN <<>>
             ELSE OutputsOf(Store_page(scan_pages, scans[n].exclusive_start_key).items))

\* the outputs among the first n that are not the error of a request
RECURSIVE ItemOutputs(_)
ItemOutputs(n) ==
    IF n = 0 THEN <<>>
    ELSE ItemOutputs(n - 1) \o (IF yielded[n] = Err(SdkError) THEN <<>> ELSE <<yielded[n]>>)

\* the successful scans before the i-th
FetchedBefore(i) == {j \in 1..(i - 1) : ~scans[j].failed}

Latest(S) == CHOOSE j \in S : \A k \in S : k <= j

\* every output the table's pages hold, in page order
RECURSIVE AllOutputs(_)
AllOutputs(p) ==
    IF p = 0 THEN <<>> ELSE AllOutputs(p - 1) \o OutputsOf(scan_pages[p].items)

\* C23: after a page request of the stream failed, the stream has yielded
\* that error once and nothing else, no further scan was issued, neither a
\* retry nor a restart, and a poll returns end-of-stream without a request.
C23_RequestErrorEndsTheStream ==
    \A i \in DOMAIN scans :
        scans[i].failed =>
            /\ i = Len(scans)
            /\ Len(yielded) = scans[i].yielded_before + 1
            /\ yielded[Len(yielded)] = Err(SdkError)
            /\ ~stream_done =>
                \A fails \in BOOLEAN :
                    /\ advance_users_stream(scan_pages, stream_state, fails).next = None
                    /\ advance_users_stream(scan_pages, stream_state, fails).request = None

\* C24: the stream issues a scan only while its buffer is empty and after
\* every item of the pages fetched so far was yielded; the request carries
\* the cursor that came with the last page fetched, and no cursor when no
\* page was fetched yet.
C24_ScanOnlyWithDrainedBufferAndItsCursor ==
    \A i \in DOMAIN scans :
        /\ scans[i].buffered = <<>>
        /\ ItemOutputs(scans[i].yielded_before) = FetchedOutputs(i - 1)
        /\ IF FetchedBefore(i) = {} THEN scans[i].exclusive_start_key = None
           ELSE LET fetched == Store_page(scan_pages,
                                          scans[Latest(FetchedBefore(i))].exclusive_start_key)
                IN  /\ fetched.last_evaluated_key # None
                    /\ scans[i].exclusive_start_key = fetched.last_evaluated_key

\* a page of two items was fetched and yielded, then the next page was
\* requested with the cursor of the first
C24_Witness ==
    /\ Len(scans) = 2
    /\ ~scans[1].failed /\ ~scans[2].failed
    /\ Len(scan_pages[1].items) = 2
    /\ scans[2].yielded_before = 2
    /\ scans[2].exclusive_start_key = Some(1)

\* C29: while no request fails the stream yields the items of the pages in
\* page order, each once, and it has ended only when all of them were
\* yielded, a page of no items with a cursor included.
C29_EveryItemOfEveryPageIsYielded ==
    Failures(scans) = 0 =>
        /\ Len(yielded) <= Len(AllOutputs(Len(scan_pages)))
        /\ yielded = SubSeq(AllOutputs(Len(scan_pages)), 1, Len(yielded))
        /\ stream_done => yielded = AllOutputs(Len(scan_pages))

(***************************************************************************)
(* Properties of the paginated loops and of the tasks they spawn           *)
(***************************************************************************)
\* C22: in the query loop of get_order and of delete_user_sessions every
\* request after the first carries as exclusive_start_key the
\* last_evaluated_key the request before it returned, no two requests ask
\* for the same page, and the loop is left only after a page without a
\* cursor (or a failure).
C22_EachRequestCarriesThePreviousCursor ==
    /\ \A i \in DOMAIN page_requests :
        i > 1 =>
            /\ page_requests[i - 1].last_evaluated_key # None
            /\ page_requests[i].exclusive_start_key = page_requests[i - 1].last_evaluated_key
    /\ \A i, j \in DOMAIN page_requests :
        page_requests[i].exclusive_start_key = page_requests[j].exclusive_start_key => i = j
    /\ (caller.pc = "joining" \/ (finished # None /\ ~IsErr(Unwrap(finished).result))) =>
        /\ page_requests # <<>>
        /\ page_requests[Len(page_requests)].last_evaluated_key = None

\* C25: when delete_user_sessions has returned, no task it spawned is still
\* running; it returned an error if a task failed or panicked, and success
\* only if every task succeeded.
C25_ReturnsAfterAllTasksAndReportsAnyFailure ==
    (caller.fn = "delete_user_sessions" /\ finished # None) =>
        /\ Unwrap(finished).unfinished = {}
        /\ (\E t \in DOMAIN tasks : tasks[t].status \in {"err", "panicked"}) =>
            IsErr(Unwrap(finished).result)
        /\ ~IsErr(Unwrap(finished).result) =>
            \A t \in DOMAIN tasks : tasks[t].status = "ok"

(***************************************************************************)
(* Specifications                                                          *)
(***************************************************************************)
ExprInit(ops) ==
    /\ op \in ops
    /\ filter = None /\ update = None /\ condition = None
    /\ key_condition \in IF op = "Query" THEN {Some(kc) : kc \in QueryKeyConditions}
                         ELSE {None}
    /\ projection \in IF op \in {"Query", "Scan"} THEN StaticProjections ELSE {None}
    /\ raw = [b \in Builders |-> NoRaw]
    /\ span = None /\ request = None

ExprIdle == ExprInit({""})

Init == ExprInit(Operations) /\ ReduceIdle /\ ProjectionIdle /\ KeysIdle /\ PanicIdle /\ CacheIdle /\ TransactIdle /\ StoreIdle /\ LimitIdle /\ KeyedIdle /\ StreamIdle /\ LoopIdle

Next ==
    \/ FilterNew(ExecDomain) \/ FilterName(ExecDomain)
    \/ FilterValue(ExecDomain) \/ FilterSensitiveValue(ExecDomain)
    \/ UpdateNew(ExecDomain) \/ UpdateName(ExecDomain)
    \/ UpdateValue(ExecDomain) \/ UpdateSensitiveValue(ExecDomain)
    \/ ConditionNew(ExecDomain) \/ ConditionName(ExecDomain)
    \/ ConditionValue(ExecDomain) \/ ConditionSensitiveValue(ExecDomain)
    \/ PutOneExecute \/ UpdateOneExecute \/ DeleteOneExecute
    \/ QueryExecute \/ ScanExecute
    \/ PutTransactBuild \/ UpdateTransactBuild

\* operations are built from fragments and executed
Spec == Init /\ [][Next]_vars

BuildInit == ExprInit(Builders) /\ ReduceIdle /\ ProjectionIdle /\ KeysIdle /\ PanicIdle /\ CacheIdle /\ TransactIdle /\ StoreIdle /\ LimitIdle /\ KeyedIdle /\ StreamIdle /\ LoopIdle

BuildNext ==
    \/ FilterNew(BuildDomain) \/ FilterName(BuildDomain)
    \/ FilterValue(BuildDomain) \/ FilterSensitiveValue(BuildDomain)
    \/ UpdateNew(BuildDomain) \/ UpdateName(BuildDomain)
    \/ UpdateValue(BuildDomain) \/ UpdateSensitiveValue(BuildDomain)
    \/ ConditionNew(BuildDomain) \/ ConditionName(BuildDomain)
    \/ ConditionValue(BuildDomain) \/ ConditionSensitiveValue(BuildDomain)

\* one builder is exercised on its own over every short template
SpecBuild == BuildInit /\ [][BuildNext]_vars

ReduceNext == ReduceMerge \/ ReduceReturn

\* one page of items is reduced into an aggregate
ReduceOnlyInit == ExprIdle /\ ReduceInit /\ ProjectionIdle /\ KeysIdle /\ PanicIdle /\ CacheIdle /\ TransactIdle /\ StoreIdle /\ LimitIdle /\ KeyedIdle /\ StreamIdle /\ LoopIdle

SpecReduce == ReduceOnlyInit /\ [][ReduceNext]_vars

ProjectionOnlyInit == ExprIdle /\ ReduceIdle /\ ProjectionInit /\ KeysIdle /\ PanicIdle /\ CacheIdle /\ TransactIdle /\ StoreIdle /\ LimitIdle /\ KeyedIdle /\ StreamIdle /\ LoopIdle

ProjectionNext == ProjectionNew \/ ProjectionExpression \/ QueryInputExtQuery

\* attribute lists are compiled; projection sets answer projection_expression()
\* and queries are built from them
SpecProjection == ProjectionOnlyInit /\ [][ProjectionNext]_vars

KeysOnlyInit == ExprIdle /\ ReduceIdle /\ ProjectionIdle /\ KeysInit /\ PanicIdle /\ CacheIdle /\ TransactIdle /\ StoreIdle /\ LimitIdle /\ KeyedIdle /\ StreamIdle /\ LoopIdle

KeysNext == FullKeyIntoKey \/ EntityIntoItem

\* the full key of an entity and the entity itself are serialized
SpecKeys == KeysOnlyInit /\ [][KeysNext]_vars

KeyConditionOnlyInit ==
    KeyConditionInit /\ ReduceIdle /\ ProjectionIdle /\ KeysIdle /\ CacheIdle /\ TransactIdle /\ StoreIdle /\ LimitIdle /\ KeyedIdle /\ StreamIdle /\ LoopIdle

KeyConditionNext ==
    \/ KeyConditionInPartition
    \/ KeyConditionSpecificItem \/ KeyConditionBetween
    \/ KeyConditionLessThan \/ KeyConditionLessThanOrEqual
    \/ KeyConditionGreaterThan \/ KeyConditionGreaterThanOrEqual
    \/ KeyConditionBeginsWith
    \/ QueryExecute

\* a key condition is built predicate by predicate and a query is run with it
SpecKeyCondition == KeyConditionOnlyInit /\ [][KeyConditionNext]_vars

CacheOnlyInit ==
    /\ ExprIdle /\ ReduceIdle /\ ProjectionIdle /\ KeysIdle /\ PanicIdle /\ CacheInit
    /\ TransactIdle /\ StoreIdle /\ LimitIdle /\ KeyedIdle /\ StreamIdle /\ LoopIdle

CacheNext == \E t \in Threads : CacheStep(t)

\* threads call projection_expression() of blanket and projections! sets
SpecCache == CacheOnlyInit /\ [][CacheNext]_vars

StoreOnlyInit ==
    /\ ExprIdle /\ ReduceIdle /\ ProjectionIdle /\ KeysIdle /\ PanicIdle /\ CacheIdle
    /\ TransactIdle /\ StoreInit /\ LimitIdle /\ KeyedIdle /\ StreamIdle /\ LoopIdle

StoreNext ==
    \/ EntityExtPrepare \/ ConditionalPutExecute
    \/ TransactWriteOperation \/ TransactWriteExecute

\* entities are put, created and replaced in the store, one by one and in
\* transactions
SpecStore == StoreOnlyInit /\ [][StoreNext]_vars

LimitOnlyInit ==
    /\ ExprIdle /\ ReduceIdle /\ ProjectionIdle /\ KeysIdle /\ PanicIdle /\ CacheIdle
    /\ TransactIdle /\ StoreIdle /\ LimitInit /\ KeyedIdle /\ StreamIdle /\ LoopIdle

LimitNext ==
    \/ QueryLimit \/ QuerySetLimit \/ ScanLimit \/ ScanSetLimit
    \/ ReadExecuteLimit

\* limits are set on a Query or a Scan, which is then executed
SpecLimit == LimitOnlyInit /\ [][LimitNext]_vars

KeyedOnlyInit ==
    /\ ExprIdle /\ ReduceIdle /\ ProjectionIdle /\ KeysIdle /\ PanicIdle /\ CacheIdle
    /\ TransactIdle /\ StoreIdle /\ LimitIdle /\ KeyedInit /\ StreamIdle /\ LoopIdle

KeyedNext ==
    \/ EntityExtUpdate \/ EntityExtDelete \/ EntityExtConditionCheck
    \/ UpdateWithExprExecute \/ DeleteExecute \/ ConditionCheckBuild

\* items are updated, deleted and condition-checked by primary key
SpecKeyed == KeyedOnlyInit /\ [][KeyedNext]_vars

StreamOnlyInit ==
    /\ ExprIdle /\ ReduceIdle /\ ProjectionIdle /\ KeysIdle /\ PanicIdle /\ CacheIdle
    /\ TransactIdle /\ StoreIdle /\ LimitIdle /\ KeyedIdle /\ StreamInit /\ LoopIdle

StreamNext == UsersStreamPollNext

\* the users stream is polled until it ends
SpecStream == StreamOnlyInit /\ [][StreamNext]_vars

LoopOnlyInit ==
    /\ ExprIdle /\ ReduceIdle /\ ProjectionIdle /\ KeysIdle /\ PanicIdle /\ CacheIdle
    /\ TransactIdle /\ StoreIdle /\ LimitIdle /\ KeyedIdle /\ StreamIdle /\ LoopInit

LoopNext ==
    \/ GetOrderIterate \/ DeleteUserSessionsIterate
    \/ TaskFinish \/ JoinNext \/ JoinReturn

\* get_order and delete_user_sessions run against a table of pages
SpecLoop == LoopOnlyInit /\ [][LoopNext]_vars

====
